---- MODULE Spec2Model ----
(***************************************************************************)
(* qik: configuration resolution (cmd/root.go initConfig) and the prompt   *)
(* assembly of the fix / answer / explain commands.                        *)
(*                                                                         *)
(* A Go string is a finite sequence of lexemes (TLA+ strings).  The three  *)
(* placeholders are spelled with three lexemes each, "{", NAME, "}", so    *)
(* strings.Contains and strings.ReplaceAll are genuine substring           *)
(* operations: a substitution can create or destroy a placeholder.         *)
(* The empty Go string is << >>.                                           *)
(***************************************************************************)
EXTENDS Integers, Sequences, FiniteSets, TLC

\* ------------------------------------------------------------------ bounds
\* Number of successive invocations of the binary on the same disk.
MaxRuns == 2

\* ------------------------------------------------------- package strings
Empty == << >>

MOOD_INSTRUCTION == <<"{", "MOOD_INSTRUCTION", "}">>
TEXT == <<"{", "TEXT", "}">>
LANGUAGE == <<"{", "LANGUAGE", "}">>

\* strings.Contains(s, sub)
Contains(s, sub) ==
  \E i \in 0..(Len(s) - Len(sub)) : SubSeq(s, i + 1, i + Len(sub)) = sub

\* strings.ReplaceAll(s, old, new) for a non-empty old: leftmost,
\* non-overlapping occurrences, the replacement is not rescanned.
RECURSIVE ReplaceAll(_, _, _)
ReplaceAll(s, old, new) ==
  IF Len(s) < Len(old) THEN s
  ELSE IF SubSeq(s, 1, Len(old)) = old
       THEN new \o ReplaceAll(SubSeq(s, Len(old) + 1, Len(s)), old, new)
       ELSE <<Head(s)>> \o ReplaceAll(Tail(s), old, new)

\* Lower-casing of one lexeme (the lexemes of the model that have upper case).
LowerLexeme(x) ==
  CASE x = "English" -> "english"
    [] x = "ENGLISH" -> "english"
    [] x = "German" -> "german"
    [] x = "Norwegian" -> "norwegian"
    [] x = "DEFAULT" -> "default"
    [] x = "Formal" -> "formal"
    [] OTHER -> x

\* strings.ToLower
ToLower(s) == [i \in 1..Len(s) |-> LowerLexeme(s[i])]

\* strings.EqualFold
EqualFold(a, b) == ToLower(a) = ToLower(b)

IsSpace(x) == x \in {" ", "\n", "\t"}

\* strings.TrimSpace
RECURSIVE TrimLeft(_)
TrimLeft(s) == IF s # Empty /\ IsSpace(Head(s)) THEN TrimLeft(Tail(s)) ELSE s
RECURSIVE TrimRight(_)
TrimRight(s) ==
  IF s # Empty /\ IsSpace(s[Len(s)]) THEN TrimRight(SubSeq(s, 1, Len(s) - 1)) ELSE s
\* Mutant of TrimSpace: nothing is trimmed.
TrimSpace_Nothing(s) == s

TrimSpace(s) == TrimRight(TrimLeft(s))

\* ---------------------------------------------- compiled-in defaults
\* cmd/root.go init(): defaultPromptsConfig
DefaultPromptDefault ==
  <<"You are an expert proofreader and linguistic assistant.\nYour primary task is to meticulously review the following text.\nCorrect all spelling and grammatical errors.\nImprove the flow and clarity of the text, rephrasing sentences or restructuring paragraphs if necessary to make it sound natural and well-written.\nThe final output should be in ">>
  \o LANGUAGE \o <<".", "\n">> \o MOOD_INSTRUCTION \o
  <<"\n", "Do NOT include any preambles, apologies, or explanations in your response. Only return the corrected and refined text.\n\nOriginal text to process:\n---", "\n">>
  \o TEXT \o <<"\n", "---">>

DefaultPromptEnglishFixOnly ==
  <<"You are an expert ", "English", " proofreader.\nYour primary task is to meticulously review the following ", "English", " text.\nCorrect all spelling and grammatical errors.\nImprove the flow and clarity of the text, rephrasing sentences or restructuring paragraphs if necessary to make it sound natural and well-written.\nThe text is already in ", "English", ", so no translation is needed.", "\n">>
  \o MOOD_INSTRUCTION \o
  <<"\n", "Do NOT include any preambles, apologies, or explanations in your response. Only return the corrected and refined text.\n\nOriginal text to process:\n---", "\n">>
  \o TEXT \o <<"\n", "---">>

DefaultPromptExplainText ==
  <<"You are an expert at simplifying complex topics.\nThe user will provide a piece of text. Your task is to explain the main concepts or what the person is talking about in that text.\nThe explanation should be:\n1. Simple and easy to understand, even for someone not familiar with the topic.\n2. Concise and to the point. Aim for a short summary.\n3. If a specific output language is requested via the ">>
  \o LANGUAGE \o
  <<" placeholder, use that language. Otherwise, attempt to provide the explanation in the SAME language as the input text (">>
  \o TEXT \o
  <<").\nDo NOT include any preambles, apologies, or phrases like \"This text is about...\". Just provide the explanation directly.\n\nText to explain:\n---", "\n">>
  \o TEXT \o <<"\n", "---">>

DefaultPromptAnswerQuestion ==
  <<"You are an intelligent and helpful assistant.\nThe user will provide a question. Your task is to provide a clear, concise, and accurate answer to that question.\nConsider the following when formulating your response:\n1. Directly address the question asked.\n2. Provide the answer in the ">>
  \o LANGUAGE \o
  <<" language.\n3. Adjust the tone of your answer according to the specified mood: ">>
  \o MOOD_INSTRUCTION \o
  <<"\n", "   If no specific mood instruction is given for \"neutral\", answer in a helpful and informative default tone.\nDo NOT include any preambles like \"Here is the answer to your question:\" or \"The answer is:\". Just provide the answer directly.\n\nQuestion to answer:\n---", "\n">>
  \o TEXT \o <<"\n", "---">>

defaultPromptsConfig ==
  [Default |-> DefaultPromptDefault,
   EnglishFixOnly |-> DefaultPromptEnglishFixOnly,
   ExplainText |-> DefaultPromptExplainText,
   AnswerQuestion |-> DefaultPromptAnswerQuestion]

\* A mood key is a Go string of one lexeme (or the empty string).
Neutral == <<"neutral">>
Professional == <<"professional">>

\* cmd/root.go getDefaultMoods()
getDefaultMoods ==
  (Neutral :> [Description |-> <<"Standard correction without specific tone alteration. Relies on base prompt's natural styling.">>,
               Instruction |-> Empty])
  @@ (Professional :> [Description |-> <<"Refine text to be formal, objective, and suitable for business or academic contexts.">>,
               Instruction |-> <<"Additionally, adjust the tone of the text to be highly professional, formal, and objective. Avoid colloquialisms and ensure a polished, business-like feel.">>])
  @@ (<<"casual">> :> [Description |-> <<"Make the text sound more relaxed, friendly, and conversational.">>,
               Instruction |-> <<"Additionally, adjust the tone of the text to be more casual, friendly, and conversational. Use simpler language and a more relaxed style where appropriate.">>])
  @@ (<<"funny">> :> [Description |-> <<"Inject humor, wit, or lightheartedness into the text (use with care).">>,
               Instruction |-> <<"Additionally, try to inject appropriate and subtle humor or a lighthearted tone into the text. Make it engaging and amusing without undermining the core message, if applicable.">>])
  @@ (<<"persuasive">> :> [Description |-> <<"Make the text more convincing, confident, and impactful.">>,
               Instruction |-> <<"Additionally, refine the text to be more persuasive and impactful. Strengthen arguments, use confident language, and aim to convince the reader.">>])
  @@ (<<"empathetic">> :> [Description |-> <<"Adjust the text to convey understanding, support, and compassion.">>,
               Instruction |-> <<"Additionally, adjust the tone to be empathetic and supportive. Use language that conveys understanding and compassion, suitable for sensitive topics.">>])
  @@ (<<"concise">> :> [Description |-> <<"Make the text as brief and to-the-point as possible, removing fluff.">>,
               Instruction |-> <<"Additionally, ensure the text is extremely concise and to-the-point. Remove any redundant words or phrases and focus on conveying the core message with maximum brevity.">>])

\* The seven mood keys the program ships with.
BuiltinMoodKeys ==
  {Neutral, Professional, <<"casual">>, <<"funny">>, <<"persuasive">>,
   <<"empathetic">>, <<"concise">>}

\* internal/config Config{}: the zero value of the package-level AppConfig.
ZeroConfig ==
  [DefaultLanguage |-> Empty, Editor |-> Empty, GeminiAPIKey |-> Empty,
   GeminiModel |-> Empty, DefaultMood |-> Empty, Moods |-> << >>,
   Prompts |-> [Default |-> Empty, EnglishFixOnly |-> Empty,
                ExplainText |-> Empty, AnswerQuestion |-> Empty]]

\* ------------------------------------------------- configuration files
\* A configuration file as viper holds it after ReadInConfig: every key is
\* lower-cased and nested keys are joined with ".".  kind is "absent",
\* "garbage" (present, not parseable as YAML) or "yaml".
EmptyKV == [k \in {} |-> Empty]
NoMoods == [k \in {} |-> [Description |-> Empty, Instruction |-> Empty]]

NoFile == [kind |-> "absent", kv |-> EmptyKV, moods |-> NoMoods]
GarbageFile == [kind |-> "garbage", kv |-> EmptyKV, moods |-> NoMoods]
YamlFile(kv, moods) == [kind |-> "yaml", kv |-> kv, moods |-> moods]

\* gopkg.in/yaml.v3 Marshal of a config.Config: the struct has mapstructure
\* tags only, so every key is the lower-cased Go field name.
YamlMarshal(c) ==
  YamlFile(
    ("defaultlanguage" :> c.DefaultLanguage)
    @@ ("editor" :> c.Editor)
    @@ ("geminiapikey" :> c.GeminiAPIKey)
    @@ ("geminimodel" :> c.GeminiModel)
    @@ ("defaultmood" :> c.DefaultMood)
    @@ ("prompts.default" :> c.Prompts.Default)
    @@ ("prompts.englishfixonly" :> c.Prompts.EnglishFixOnly)
    @@ ("prompts.explaintext" :> c.Prompts.ExplainText)
    @@ ("prompts.answerquestion" :> c.Prompts.AnswerQuestion),
    c.Moods)

\* The environment variable AutomaticEnv consults for a key: prefix QIK,
\* "." replaced by "_", upper-cased.
EnvVar(key) ==
  CASE key = "defaultlanguage" -> "QIK_DEFAULTLANGUAGE"
    [] key = "editor" -> "QIK_EDITOR"
    [] key = "geminiapikey" -> "QIK_GEMINIAPIKEY"
    [] key = "geminimodel" -> "QIK_GEMINIMODEL"
    [] key = "defaultmood" -> "QIK_DEFAULTMOOD"
    [] key = "prompts.default" -> "QIK_PROMPTS_DEFAULT"
    [] key = "prompts.english_fix_only" -> "QIK_PROMPTS_ENGLISH_FIX_ONLY"
    [] key = "prompts.explain_text" -> "QIK_PROMPTS_EXPLAIN_TEXT"
    [] key = "prompts.answer_question" -> "QIK_PROMPTS_ANSWER_QUESTION"
    [] key = "prompts.englishfixonly" -> "QIK_PROMPTS_ENGLISHFIXONLY"
    [] key = "prompts.explaintext" -> "QIK_PROMPTS_EXPLAINTEXT"
    [] key = "prompts.answerquestion" -> "QIK_PROMPTS_ANSWERQUESTION"
    [] OTHER -> "QIK_"

\* viper.GetString(key): an environment value shadows the file value.
GetString(file, environ, key) ==
  IF EnvVar(key) \in DOMAIN environ THEN environ[EnvVar(key)]
  ELSE IF key \in DOMAIN file.kv THEN file.kv[key]
  ELSE Empty

\* The value viper.Unmarshal decodes for a key: Unmarshal walks the keys viper
\* knows from the file that was read, so the environment overlays a key only
\* when the file defines it, and a key the file lacks decodes to "".
Setting(file, environ, key) ==
  IF key \in DOMAIN file.kv THEN GetString(file, environ, key) ELSE Empty

\* viper lower-cases the keys of nested maps; two keys that fold to the same
\* key collapse into one entry.
LoadedMoods(file) ==
  [k \in {ToLower(m) : m \in DOMAIN file.moods} |->
     file.moods[CHOOSE m \in DOMAIN file.moods : ToLower(m) = k]]

\* viper.Unmarshal(&AppConfig): mapstructure matches a key to the field whose
\* tag equals it, case-insensitively.
Unmarshal(file, environ) ==
  [DefaultLanguage |-> Setting(file, environ, "defaultlanguage"),
   Editor |-> Setting(file, environ, "editor"),
   GeminiAPIKey |-> Setting(file, environ, "geminiapikey"),
   GeminiModel |-> Setting(file, environ, "geminimodel"),
   DefaultMood |-> Setting(file, environ, "defaultmood"),
   Moods |-> LoadedMoods(file),
   Prompts |-> [Default |-> Setting(file, environ, "prompts.default"),
                EnglishFixOnly |-> Setting(file, environ, "prompts.english_fix_only"),
                ExplainText |-> Setting(file, environ, "prompts.explain_text"),
                AnswerQuestion |-> Setting(file, environ, "prompts.answer_question")]]

\* viper.ReadInConfig(): with --config exactly that path is read and a
\* missing file is a plain read error; without it $HOME/.config/qik and then
\* "." are searched for config.yaml and the first file that exists is read.
\* err is "" (read), "notfound" (ConfigFileNotFoundError) or "other".
ConfigFileUsed(d, cfgFile, homeOK) ==
  IF cfgFile # Empty THEN "explicit"
  ELSE IF homeOK /\ d.home.kind # "absent" THEN "home"
  ELSE IF d.cwd.kind # "absent" THEN "cwd"
  ELSE "none"

ReadInConfig(d, cfgFile, homeOK) ==
  LET loc == ConfigFileUsed(d, cfgFile, homeOK)
      f == IF loc = "none" THEN NoFile ELSE d[loc]
  IN IF loc = "none" THEN [err |-> "notfound", file |-> NoFile, loc |-> loc]
     ELSE IF f.kind = "yaml" THEN [err |-> "", file |-> f, loc |-> loc]
     ELSE [err |-> "other", file |-> NoFile, loc |-> loc]

\* createDefaultConfig: defaultCfg
defaultCfg ==
  [DefaultLanguage |-> <<"Norwegian">>, Editor |-> <<"nvim">>,
   GeminiAPIKey |-> Empty, GeminiModel |-> <<"gemini-1.5-flash-latest">>,
   DefaultMood |-> Neutral, Moods |-> getDefaultMoods,
   Prompts |-> defaultPromptsConfig]

\* createDefaultConfig(configPath) on the user-scoped path.  h says whether
\* MkdirAll and WriteFile can succeed on this host.
createDefaultConfig(d, h, verbose) ==
  LET needDir == ~d.homeDir
      dirFails == needDir /\ ~h.mkdirOK
      d1 == IF needDir /\ h.mkdirOK THEN [d EXCEPT !.homeDir = TRUE] ELSE d
      evDir == IF needDir /\ h.mkdirOK
               THEN <<"mkdir">> \o (IF verbose THEN <<"verbose: Created config directory">> ELSE << >>)
               ELSE IF needDir THEN <<"mkdir failed">> ELSE << >>
  IN IF dirFails
     THEN [ok |-> FALSE, disk |-> d, events |-> evDir]
     ELSE IF ~h.writeOK
     THEN [ok |-> FALSE, disk |-> d1, events |-> evDir \o <<"write failed">>]
     ELSE [ok |-> TRUE,
           disk |-> [d1 EXCEPT !.home = YamlMarshal(defaultCfg)],
           events |-> evDir \o <<"write config", "stdout: Created default config file">>
                      \o (IF verbose THEN <<"verbose: You might want to review it">> ELSE << >>)]

\* Mutant of printVerbose: the message is printed whatever --verbose is.
printVerbose_Always(verbose, msg) == <<msg>>

\* printVerbose(msg): the message, only when --verbose is set.
printVerbose(verbose, msg) == IF verbose THEN <<msg>> ELSE << >>

\* initConfig, "Apply programmatic defaults": one definition per field.
DefaultLanguageOrDefault(c) ==
  IF c.DefaultLanguage = Empty THEN <<"Norwegian">> ELSE c.DefaultLanguage

EditorOrDefault(c) == IF c.Editor = Empty THEN <<"nvim">> ELSE c.Editor

GeminiModelOrDefault(c) ==
  IF c.GeminiModel = Empty THEN <<"gemini-1.5-flash-latest">> ELSE c.GeminiModel

\* Mutant of DefaultMoodOrDefault: the default mood is always reset.
DefaultMoodOrDefault_Reset(c) == Neutral

DefaultMoodOrDefault(c) == IF c.DefaultMood = Empty THEN Neutral ELSE c.DefaultMood

\* Mutant of MoodPromptOrDefault: the {MOOD_INSTRUCTION} check is dropped.
MoodPromptOrDefault_KeepStale(loaded, builtin) ==
  IF loaded = Empty THEN builtin ELSE loaded

\* A default / english_fix_only template is kept only if it is non-empty and
\* contains {MOOD_INSTRUCTION}.
MoodPromptOrDefault(loaded, builtin) ==
  IF loaded = Empty \/ ~Contains(loaded, MOOD_INSTRUCTION) THEN builtin ELSE loaded

\* Mutant of PromptOrDefault: an empty template is not replaced.
PromptOrDefault_NoDefault(loaded, builtin) == loaded

\* Mutant of PromptOrDefault: the {MOOD_INSTRUCTION} validity rule is applied
\* to explain_text and answer_question as well.
PromptOrDefault_RequireMood(loaded, builtin) ==
  IF loaded = Empty \/ ~Contains(loaded, MOOD_INSTRUCTION) THEN builtin ELSE loaded

\* An explain_text / answer_question template is kept if it is non-empty.
PromptOrDefault(loaded, builtin) == IF loaded = Empty THEN builtin ELSE loaded

\* Mutant of MoodsOrDefault: an empty moods map is not replaced.
MoodsOrDefault_KeepEmpty(c) == c.Moods

\* The moods map is replaced only when it is nil or has no entry.
MoodsOrDefault(c) == IF DOMAIN c.Moods = {} THEN getDefaultMoods ELSE c.Moods

ApplyDefaults(c) ==
  [DefaultLanguage |-> DefaultLanguageOrDefault(c),
   Editor |-> EditorOrDefault(c),
   GeminiAPIKey |-> c.GeminiAPIKey,
   GeminiModel |-> GeminiModelOrDefault(c),
   DefaultMood |-> DefaultMoodOrDefault(c),
   Moods |-> MoodsOrDefault(c),
   Prompts |->
     [Default |-> MoodPromptOrDefault(c.Prompts.Default, defaultPromptsConfig.Default),
      EnglishFixOnly |-> MoodPromptOrDefault(c.Prompts.EnglishFixOnly,
                                             defaultPromptsConfig.EnglishFixOnly),
      ExplainText |-> PromptOrDefault(c.Prompts.ExplainText, defaultPromptsConfig.ExplainText),
      AnswerQuestion |-> PromptOrDefault(c.Prompts.AnswerQuestion,
                                         defaultPromptsConfig.AnswerQuestion)]]

\* The printVerbose lines of the defaulting steps, in source order.
DefaultsDiagnostics(c, verbose) ==
  (IF c.DefaultLanguage = Empty
   THEN printVerbose(verbose, "verbose: DefaultLanguage not set in config") ELSE << >>)
  \o (IF c.Editor = Empty
      THEN printVerbose(verbose, "verbose: Editor not set in config") ELSE << >>)
  \o (IF c.GeminiModel = Empty
      THEN printVerbose(verbose, "verbose: GeminiModel not set in config") ELSE << >>)
  \o (IF c.DefaultMood = Empty
      THEN printVerbose(verbose, "verbose: DefaultMood not set in config") ELSE << >>)
  \o (IF c.Prompts.Default = Empty \/ ~Contains(c.Prompts.Default, MOOD_INSTRUCTION)
      THEN printVerbose(verbose, "verbose: Default prompt missing or outdated") ELSE << >>)
  \o (IF c.Prompts.EnglishFixOnly = Empty \/ ~Contains(c.Prompts.EnglishFixOnly, MOOD_INSTRUCTION)
      THEN printVerbose(verbose, "verbose: EnglishFixOnly prompt missing or outdated") ELSE << >>)
  \o (IF c.Prompts.ExplainText = Empty
      THEN printVerbose(verbose, "verbose: ExplainText prompt missing") ELSE << >>)
  \o (IF c.Prompts.AnswerQuestion = Empty
      THEN printVerbose(verbose, "verbose: AnswerQuestion prompt missing") ELSE << >>)
  \o (IF DOMAIN c.Moods = {}
      THEN printVerbose(verbose, "verbose: Moods not set in config") ELSE << >>)

\* The file reads of one viper.ReadInConfig call, as events.
ReadEvents(r) == IF r.loc = "none" THEN <<"search config">> ELSE <<"search config", "read config">>

\* Mutant of ReadAgain: the newly created file is not read back.
ReadAgain_Skipped(d, cfgFile, homeOK) == [err |-> "other", file |-> NoFile, loc |-> "none"]

\* The second viper.ReadInConfig, after createDefaultConfig succeeded.
ReadAgain(d, cfgFile, homeOK) == ReadInConfig(d, cfgFile, homeOK)

\* initConfig up to viper.Unmarshal: the file that ends up loaded, the disk it
\* leaves and what it reads, writes and prints on the way.
LoadConfig(d, h, cfgFile, verbose) ==
  LET homeWarn == IF cfgFile = Empty /\ ~h.homeOK
                  THEN <<"stderr: Warning: Could not get user home directory">> ELSE << >>
      r == ReadInConfig(d, cfgFile, h.homeOK)
  IN IF r.err = ""
     THEN [file |-> r.file, disk |-> d,
           events |-> homeWarn \o ReadEvents(r)
                      \o printVerbose(verbose, "verbose: Successfully read config file")]
     ELSE IF r.err = "other"
     THEN [file |-> NoFile, disk |-> d,
           events |-> homeWarn \o ReadEvents(r) \o <<"stderr: Error reading config file">>]
     ELSE \* ConfigFileNotFoundError
       LET ev0 == homeWarn \o ReadEvents(r) \o <<"stderr: Config file not found.">>
       IN IF ~h.homeOK
          THEN [file |-> NoFile, disk |-> d,
                events |-> ev0 \o <<"stderr: Warning: Could not determine default config path">>]
          ELSE LET c == createDefaultConfig(d, h, verbose)
               IN IF ~c.ok
                  THEN [file |-> NoFile, disk |-> c.disk,
                        events |-> ev0 \o c.events
                                   \o <<"stderr: Warning: Could not create default config">>]
                  ELSE LET r2 == ReadAgain(c.disk, cfgFile, h.homeOK)
                       IN [file |-> r2.file, disk |-> c.disk,
                           events |-> ev0 \o c.events \o ReadEvents(r2)
                             \o (IF r2.err = ""
                                 THEN printVerbose(verbose, "verbose: Successfully read newly created config")
                                 ELSE <<"stderr: Warning: Could not read newly created config">>)]

\* ------------------------------------------------------ input universes
English == <<"English">>
German == <<"German">>

\* User-written templates: one without {MOOD_INSTRUCTION} (stale), one with
\* {MOOD_INSTRUCTION} but without {TEXT}, an explain template without {TEXT}
\* and an answer template without {MOOD_INSTRUCTION}.
StaleTemplate == <<"Fix this in ">> \o LANGUAGE \o <<": ">> \o TEXT
MoodOnlyTemplate == <<"Rewrite the text. ">> \o MOOD_INSTRUCTION
UserExplainTemplate == <<"Explain briefly.">>
UserAnswerTemplate == <<"Answer this: ">> \o TEXT
\* A user-written explain template that carries a {MOOD_INSTRUCTION} token.
MoodExplainTemplate == <<"Explain. ">> \o MOOD_INSTRUCTION \o <<" ">> \o TEXT

\* User-written moods maps.
FormalMoods ==
  (<<"Formal">> :> [Description |-> <<"Formal tone.">>, Instruction |-> <<"Be formal.">>])
  @@ (Professional :> [Description |-> <<"Business.">>, Instruction |-> <<"Be businesslike.">>])
PlainMoods ==
  (Neutral :> [Description |-> <<"No styling.">>, Instruction |-> Empty])
  @@ (<<"plain">> :> [Description |-> <<"Plain.">>, Instruction |-> Empty])
EvenMoods ==
  (Neutral :> [Description |-> <<"Even tone.">>, Instruction |-> <<"Keep the tone even.">>])
  @@ (Professional :> [Description |-> <<"Business.">>, Instruction |-> <<"Be businesslike.">>])

\* A file content: each key is absent (the value Absent) or set.
Absent == <<"<absent>">>
MakeKV(lang, ed, model, mood, key, pd, pe, px, pa) ==
  LET all == ("defaultlanguage" :> lang) @@ ("editor" :> ed) @@ ("geminimodel" :> model)
             @@ ("defaultmood" :> mood) @@ ("geminiapikey" :> key)
             @@ ("prompts.default" :> pd)
             @@ ("prompts.english_fix_only" :> pe) @@ ("prompts.explain_text" :> px)
             @@ ("prompts.answer_question" :> pa)
  IN [k \in {x \in DOMAIN all : all[x] # Absent} |-> all[k]]

\* Every combination of absent / set fields (the resolver specification).
ResolveFiles ==
  {YamlFile(MakeKV(lang, ed, model, mood, Absent, pd, pe, px, pa), moods) :
     lang \in {Absent, English}, ed \in {Absent, Empty, <<"emacs">>},
     model \in {Absent, <<"gemini-pro">>},
     mood \in {Absent, <<"ghost">>},
     pd \in {Absent, StaleTemplate, MoodOnlyTemplate},
     pe \in {Absent, StaleTemplate, MoodOnlyTemplate},
     px \in {Absent, UserExplainTemplate}, pa \in {Absent, UserAnswerTemplate},
     moods \in {NoMoods, FormalMoods, PlainMoods}}

\* The files of the command specification: the fields prompt assembly reads.
CommandFiles ==
  {NoFile, GarbageFile,
   YamlFile(MakeKV(English, Absent, Absent, Absent, Absent, MoodOnlyTemplate, Absent,
                   UserExplainTemplate, UserAnswerTemplate), NoMoods),
   YamlFile(MakeKV(English, Absent, Absent, <<"Formal">>, Absent, Absent, MoodOnlyTemplate,
                   Absent, Absent), FormalMoods),
   YamlFile(MakeKV(Absent, Absent, Absent, Absent, Absent, Absent, Absent,
                   MoodExplainTemplate, Absent), NoMoods)}
  \cup {YamlFile(MakeKV(Absent, Absent, Absent, mood, Absent, Absent, Absent, Absent, Absent),
                 moods) :
          mood \in {Absent, Professional, <<"ghost">>},
          moods \in {NoMoods, FormalMoods, PlainMoods, EvenMoods}}

CwdFile ==
  YamlFile(MakeKV(German, <<"nano">>, Absent, Absent, Absent, Absent, Absent, Absent, Absent),
           NoMoods)
ExplicitFile ==
  YamlFile(MakeKV(Absent, <<"code --wait">>, Absent, Professional, <<"file-key">>, Absent,
                  Absent, Absent, Absent), EvenMoods)

\* QIK_* environment overlays (viper ignores an empty environment value).
NoEnviron == [k \in {} |-> Empty]
Environs ==
  {NoEnviron,
   ("QIK_EDITOR" :> <<"vim">>) @@ ("QIK_DEFAULTLANGUAGE" :> German),
   ("QIK_PROMPTS_DEFAULT" :> StaleTemplate) @@ ("QIK_PROMPTS_ENGLISH_FIX_ONLY" :> MoodOnlyTemplate)
     @@ ("QIK_DEFAULTMOOD" :> Professional)}

AllOK == [homeOK |-> TRUE, mkdirOK |-> TRUE, writeOK |-> TRUE]
Hosts == [homeOK : BOOLEAN, mkdirOK : BOOLEAN, writeOK : BOOLEAN]

CustomPath == <<"custom.yaml">>

\* What the credential sources hold: GEMINI_API_KEY, and whether `pass` is
\* installed, fails, and what it prints.
NoSecrets == [env |-> Empty, passInstalled |-> FALSE, passOK |-> FALSE, passOutput |-> Empty]
EnvSecret == [env |-> <<"env-key">>, passInstalled |-> FALSE, passOK |-> FALSE,
              passOutput |-> Empty]

\* A flag that was not given on the command line.
Unset == <<"<unset>">>

\* The command lines of the command specification: subcommand and flags.
FixArgs ==
  [cmd : {"fix"}, verbose : BOOLEAN,
   language : {Unset, English, <<"english">>, German},
   english : BOOLEAN,
   prompt : {Unset, Empty, <<"default">>, <<"DEFAULT">>, <<"english_fix_only">>, <<"bogus">>},
   mood : {Unset, Empty, Neutral, Professional, <<"bogus">>},
   copy : {FALSE}]
AnswerArgs ==
  [cmd : {"answer"}, verbose : BOOLEAN,
   language : {Unset, Empty, English, German},
   english : {FALSE}, prompt : {Unset},
   mood : {Unset, Empty, Neutral, Professional, <<"bogus">>},
   copy : BOOLEAN]
ExplainArgs ==
  [cmd : {"explain"}, verbose : BOOLEAN,
   language : {Unset, Empty, English, German},
   english : {FALSE}, prompt : {Unset}, mood : {Unset}, copy : BOOLEAN]

\* What the editor session leaves in the temporary file, and what the model
\* answers.
Texts == {Empty, <<" ", "\n">>, <<"helo wrold">>, <<"see ">> \o LANGUAGE,
          <<"keep ">> \o MOOD_INSTRUCTION}
Responses == {<<"Hello world", "\n">>}

\* ---------------------------------------------------------------- state
VARIABLES
  disk,              \* the configuration files on disk
  environ,           \* QIK_* environment variables
  host,              \* whether $HOME resolves, MkdirAll and WriteFile can succeed
  secrets,           \* GEMINI_API_KEY and the `pass` store
  runs,              \* invocations of the binary so far
  resolved,          \* the AppConfig each invocation resolved, in order
  pc,                \* position of the current invocation
  argv,              \* the command line of the current invocation
  cmd,               \* subcommand: "fix", "answer", "explain"
  cfgFile, verbose,  \* persistent flags --config, --verbose
  language,          \* --language (language / answerLanguage / explainLanguage)
  promptKey,         \* --prompt
  englishShorthand,  \* --english
  moodKey,           \* --mood (moodKey / answerMoodKey)
  copyToClipboard,   \* --copy
  changed,           \* flags given on the command line: cmd.Flags().Changed
  viperConfig,       \* the file viper holds after ReadInConfig
  AppConfig,
  apiKey, targetLanguage, chosenPromptTemplate, selectedMoodKey,
  moodInstructionText, finalPrompt, inputText,
  sentPrompt,        \* ProcessText's finalPrompt, the string handed to the model
  processedText,
  tempFile,          \* the temporary input file exists
  events,            \* what the invocation read, wrote, ran and printed, in order
  exitCode           \* -1 while running

flagVars == <<argv, cmd, cfgFile, verbose, language, promptKey, englishShorthand, moodKey,
              copyToClipboard, changed>>
runVars == <<apiKey, targetLanguage, chosenPromptTemplate, selectedMoodKey,
             moodInstructionText, finalPrompt, inputText, sentPrompt, processedText>>
hostVars == <<environ, host, secrets>>
vars == <<disk, hostVars, runs, resolved, pc, flagVars, viperConfig, AppConfig, runVars,
          tempFile, events, exitCode>>

\* The locals of Run before they are assigned.
RunInit ==
  /\ apiKey = Empty /\ targetLanguage = Empty /\ chosenPromptTemplate = Empty
  /\ selectedMoodKey = Empty /\ moodInstructionText = Empty /\ finalPrompt = Empty
  /\ inputText = Empty /\ sentPrompt = Empty /\ processedText = Empty

\* The flag variables as cobra leaves them after parsing the command line a.
Parsed(a, path) ==
  /\ argv = a
  /\ cmd = a.cmd /\ cfgFile = path /\ verbose = a.verbose
  /\ language = (IF a.language = Unset THEN Empty ELSE a.language)
  /\ promptKey = (IF a.prompt = Unset THEN Empty ELSE a.prompt)
  /\ englishShorthand = a.english
  /\ moodKey = (IF a.mood = Unset THEN Empty ELSE a.mood)
  /\ copyToClipboard = a.copy
  /\ changed = (IF a.language = Unset THEN {} ELSE {"language"})
                 \cup (IF a.prompt = Unset THEN {} ELSE {"prompt"})
                 \cup (IF a.mood = Unset THEN {} ELSE {"mood"})

\* A process that has parsed its command line and has not yet run initConfig.
ProcessStart ==
  /\ runs = 1 /\ resolved = << >>
  /\ pc = "init"
  /\ viperConfig = NoFile /\ AppConfig = ZeroConfig
  /\ RunInit
  /\ tempFile = FALSE /\ events = << >> /\ exitCode = -1

Init ==
  /\ disk \in [homeDir : {TRUE}, home : CommandFiles, cwd : {NoFile}, explicit : {NoFile}]
  /\ environ = NoEnviron
  /\ host = AllOK
  /\ secrets \in {EnvSecret, NoSecrets}
  /\ \E a \in FixArgs \cup AnswerArgs \cup ExplainArgs : Parsed(a, Empty)
  /\ ProcessStart

\* The resolver specification: only the persistent flags vary, over every
\* file content and every arrangement of missing, unparseable and present
\* files.
InitResolve ==
  /\ \/ /\ disk \in [homeDir : {TRUE}, home : ResolveFiles, cwd : {NoFile, CwdFile},
                     explicit : {NoFile}]
        /\ host = AllOK
        /\ cfgFile = Empty
     \/ /\ disk \in [homeDir : BOOLEAN, home : {NoFile, GarbageFile},
                     cwd : {NoFile, GarbageFile, CwdFile},
                     explicit : {NoFile, GarbageFile, ExplicitFile}]
        /\ disk.home.kind # "absent" => disk.homeDir
        /\ host \in Hosts
        /\ cfgFile \in {Empty, CustomPath}
  /\ environ \in Environs
  /\ secrets = NoSecrets
  /\ \E v \in BOOLEAN :
       Parsed([cmd |-> "fix", verbose |-> v, language |-> Unset, english |-> FALSE,
               prompt |-> Unset, mood |-> Unset, copy |-> FALSE], cfgFile)
  /\ ProcessStart

\* ------------------------------------------------------------- actions
\* cobra.OnInitialize(initConfig): the whole of initConfig.
initConfig ==
  /\ pc = "init"
  /\ LET l == LoadConfig(disk, host, cfgFile, verbose)
         loaded == Unmarshal(l.file, environ)
     IN /\ disk' = l.disk
        /\ viperConfig' = l.file
        /\ AppConfig' = ApplyDefaults(loaded)
        /\ events' = events \o l.events \o DefaultsDiagnostics(loaded, verbose)
  /\ resolved' = Append(resolved, AppConfig')
  /\ pc' = "prerun"
  /\ UNCHANGED <<hostVars, runs, flagVars, runVars, tempFile, exitCode>>

\* The binary is started again with the same --config on the disk the
\* previous invocation left.
Restart ==
  /\ pc = "prerun"
  /\ runs < MaxRuns
  /\ runs' = runs + 1
  /\ pc' = "init"
  /\ viperConfig' = NoFile
  /\ AppConfig' = ZeroConfig
  /\ events' = << >>
  /\ \E v \in BOOLEAN : verbose' = v /\ argv' = [argv EXCEPT !.verbose = v]
  /\ UNCHANGED <<disk, hostVars, resolved, cmd, cfgFile, language, promptKey,
                 englishShorthand, moodKey, copyToClipboard, changed, runVars, tempFile,
                 exitCode>>

NextResolve == initConfig \/ Restart

SpecResolve == InitResolve /\ [][NextResolve]_vars

\* ------------------------------------------------ fix, answer, explain
\* log.Fatal / log.Fatalf, and an error returned to Execute: the message goes
\* to stderr and the process exits with status 1.
Fatal(msg) ==
  /\ pc' = "exit"
  /\ exitCode' = 1
  /\ events' = events \o <<msg>>

\* Mutant of PersistentPreRunE: the conflict is reported but the error is not
\* returned, so Run still executes.
PersistentPreRunE_Continue ==
  /\ pc = "prerun"
  /\ pc' = "run"
  /\ IF cmd = "fix" /\ englishShorthand
     THEN IF language # Empty /\ ~EqualFold(language, English)
          THEN /\ events' = events \o <<"stderr: --english flag is incompatible with --language">>
               /\ UNCHANGED <<language, promptKey>>
          ELSE /\ language' = English
               /\ promptKey' = (IF "prompt" \notin changed THEN <<"english_fix_only">>
                                ELSE promptKey)
               /\ UNCHANGED events
     ELSE UNCHANGED <<language, promptKey, events>>
  /\ UNCHANGED <<disk, hostVars, runs, resolved, argv, cmd, cfgFile, verbose, englishShorthand,
                 moodKey, copyToClipboard, changed, viperConfig, AppConfig, runVars,
                 tempFile, exitCode>>

\* fixCmd.PersistentPreRunE; answer and explain have no pre-run hook.
PersistentPreRunE ==
  /\ pc = "prerun"
  /\ IF cmd = "fix" /\ englishShorthand
     THEN IF language # Empty /\ ~EqualFold(language, English)
          THEN /\ Fatal("stderr: --english flag is incompatible with --language")
               /\ UNCHANGED <<language, promptKey>>
          ELSE /\ language' = English
               /\ promptKey' = (IF "prompt" \notin changed THEN <<"english_fix_only">>
                                ELSE promptKey)
               /\ pc' = "run"
               /\ UNCHANGED <<events, exitCode>>
     ELSE /\ pc' = "run"
          /\ UNCHANGED <<language, promptKey, events, exitCode>>
  /\ UNCHANGED <<disk, hostVars, runs, resolved, argv, cmd, cfgFile, verbose, englishShorthand,
                 moodKey, copyToClipboard, changed, viperConfig, AppConfig, runVars,
                 tempFile>>

\* strings.SplitN(key, "\n", 2)[0]
RECURSIVE FirstLine(_)
FirstLine(s) ==
  IF s = Empty \/ Head(s) = "\n" THEN Empty ELSE <<Head(s)>> \o FirstLine(Tail(s))

\* Mutant of GetGeminiAPIKey: the configuration field is tried before the
\* environment variable and the secret store.
GetGeminiAPIKey_ConfigFirst(configKey, sec, v) ==
  LET passKey == TrimSpace(sec.passOutput)
  IN IF configKey # Empty
     THEN [key |-> configKey, err |-> FALSE, events |-> << >>]
     ELSE IF sec.env # Empty
     THEN [key |-> sec.env, err |-> FALSE, events |-> <<"getenv GEMINI_API_KEY">>]
     ELSE IF sec.passInstalled /\ sec.passOK /\ passKey # Empty
     THEN [key |-> FirstLine(passKey), err |-> FALSE,
           events |-> <<"getenv GEMINI_API_KEY", "look up pass", "exec pass">>]
     ELSE [key |-> Empty, err |-> TRUE, events |-> <<"getenv GEMINI_API_KEY", "look up pass">>]

\* utils.GetGeminiAPIKey(configKey, verbose)
GetGeminiAPIKey(configKey, sec, v) ==
  LET passKey == TrimSpace(sec.passOutput)
      lookPath == <<"getenv GEMINI_API_KEY", "look up pass">>
      passRun == IF sec.passInstalled THEN <<"exec pass">>
                 ELSE printVerbose(v, "verbose: 'pass' command not found in PATH")
  IN IF sec.env # Empty
     THEN [key |-> sec.env, err |-> FALSE,
           events |-> <<"getenv GEMINI_API_KEY">>
                      \o printVerbose(v, "verbose: Using Gemini API key from environment")]
     ELSE IF sec.passInstalled /\ sec.passOK /\ passKey # Empty
     THEN [key |-> FirstLine(passKey), err |-> FALSE,
           events |-> lookPath \o passRun
                      \o printVerbose(v, "verbose: Using Gemini API key from 'pass'")]
     ELSE IF configKey # Empty
     THEN [key |-> configKey, err |-> FALSE,
           events |-> lookPath \o passRun
                      \o printVerbose(v, "verbose: Warning: Using Gemini API key from the configuration file")]
     ELSE [key |-> Empty, err |-> TRUE, events |-> lookPath \o passRun]

\* Run, first statements: the credential lookup and its two fatal checks.
GetAPIKey ==
  /\ pc = "run"
  /\ LET r == GetGeminiAPIKey(GetString(viperConfig, environ, "geminiapikey"), secrets, verbose)
     IN IF r.err
        THEN /\ pc' = "exit" /\ exitCode' = 1
             /\ events' = events \o r.events \o <<"stderr: Error getting API key">>
             /\ UNCHANGED apiKey
        ELSE IF r.key = Empty
        THEN /\ pc' = "exit" /\ exitCode' = 1
             /\ events' = events \o r.events \o <<"stderr: Gemini API key not found">>
             /\ UNCHANGED apiKey
        ELSE /\ apiKey' = r.key
             /\ pc' = "assemble"
             /\ events' = events \o r.events
             /\ UNCHANGED exitCode
  /\ UNCHANGED <<disk, hostVars, runs, resolved, flagVars, viperConfig, AppConfig,
                 targetLanguage, chosenPromptTemplate, selectedMoodKey, moodInstructionText,
                 finalPrompt, inputText, sentPrompt, processedText, tempFile>>

\* Mutant of FixLanguage: the --language flag is ignored.
FixLanguage_IgnoreFlag == AppConfig.DefaultLanguage

\* fix: "Determine the target language" (before template selection).
FixLanguage == IF language # Empty THEN language ELSE AppConfig.DefaultLanguage

\* Mutant of SelectPrompt: without --prompt the default template is always
\* chosen, whatever the language.
SelectPrompt_NoLanguageRouting(c, key, lang) ==
  IF key # Empty /\ ToLower(key) = <<"english_fix_only">>
  THEN [template |-> c.Prompts.EnglishFixOnly, language |-> English, events |-> << >>]
  ELSE [template |-> c.Prompts.Default, language |-> lang,
        events |-> IF key # Empty /\ ToLower(key) # <<"default">>
                   THEN <<"stdout: Warning: Unknown prompt key">> ELSE << >>]

\* Mutant of SelectPrompt: an English target language selects
\* english_fix_only even when --prompt default is given.
SelectPrompt_LanguageFirst(c, key, lang) ==
  IF EqualFold(lang, English) /\ c.Prompts.EnglishFixOnly # Empty
  THEN [template |-> c.Prompts.EnglishFixOnly, language |-> lang, events |-> << >>]
  ELSE IF key # Empty /\ ToLower(key) = <<"english_fix_only">>
  THEN [template |-> c.Prompts.EnglishFixOnly, language |-> English, events |-> << >>]
  ELSE [template |-> c.Prompts.Default, language |-> lang,
        events |-> IF key # Empty /\ ToLower(key) # <<"default">>
                   THEN <<"stdout: Warning: Unknown prompt key">> ELSE << >>]

\* Mutant of SelectPrompt: an unrecognized key is dropped without a warning
\* and the template is chosen by language.
SelectPrompt_UnknownKeySilent(c, key, lang) ==
  IF key # Empty /\ ToLower(key) = <<"default">>
  THEN [template |-> c.Prompts.Default, language |-> lang, events |-> << >>]
  ELSE IF key # Empty /\ ToLower(key) = <<"english_fix_only">>
  THEN [template |-> c.Prompts.EnglishFixOnly, language |-> English, events |-> << >>]
  ELSE IF EqualFold(lang, English) /\ c.Prompts.EnglishFixOnly # Empty
  THEN [template |-> c.Prompts.EnglishFixOnly, language |-> lang, events |-> << >>]
  ELSE [template |-> c.Prompts.Default, language |-> lang, events |-> << >>]

\* fix: "Select the appropriate AI prompt template": the template, the
\* target language after selection, and the warning if any.
SelectPrompt(c, key, lang) ==
  IF key # Empty
  THEN IF ToLower(key) = <<"default">>
       THEN [template |-> c.Prompts.Default, language |-> lang, events |-> << >>]
       ELSE IF ToLower(key) = <<"english_fix_only">>
       THEN [template |-> c.Prompts.EnglishFixOnly, language |-> English, events |-> << >>]
       ELSE [template |-> c.Prompts.Default, language |-> lang,
             events |-> <<"stdout: Warning: Unknown prompt key">>]
  ELSE IF EqualFold(lang, English) /\ c.Prompts.EnglishFixOnly # Empty
       THEN [template |-> c.Prompts.EnglishFixOnly, language |-> lang, events |-> << >>]
       ELSE [template |-> c.Prompts.Default, language |-> lang, events |-> << >>]

\* selectedMoodKey := AppConfig.DefaultMood, overridden by --mood when given.
SelectedMood == IF "mood" \in changed THEN moodKey ELSE AppConfig.DefaultMood

\* Mutant of FixMood: a missing key yields no instruction instead of the
\* default mood's.
FixMood_NoFallback(c, key) ==
  IF key \in DOMAIN c.Moods
  THEN [text |-> c.Moods[key].Instruction, key |-> key, events |-> << >>]
  ELSE [text |-> Empty, key |-> key, events |-> <<"stdout: Warning: Mood key not found">>]

\* Mutant of FixMood: the not-found warning is printed for the empty key too.
FixMood_WarnEmptyKey(c, key) ==
  IF key \in DOMAIN c.Moods
  THEN [text |-> c.Moods[key].Instruction, key |-> key, events |-> << >>]
  ELSE LET warn == IF key # c.DefaultMood
                   THEN <<"stdout: Warning: Mood key not found">> ELSE << >>
       IN IF c.DefaultMood \in DOMAIN c.Moods
          THEN [text |-> c.Moods[c.DefaultMood].Instruction, key |-> key, events |-> warn]
          ELSE [text |-> Empty, key |-> key,
                events |-> warn \o <<"stdout: Warning: Default mood also not found">>]

\* fix: mood lookup with fallback to the default mood; selectedMoodKey is not
\* updated by the fallback.
FixMood(c, key) ==
  IF key \in DOMAIN c.Moods
  THEN [text |-> c.Moods[key].Instruction, key |-> key, events |-> << >>]
  ELSE LET warn == IF key # Empty /\ key # c.DefaultMood
                   THEN <<"stdout: Warning: Mood key not found">> ELSE << >>
       IN IF c.DefaultMood \in DOMAIN c.Moods
          THEN [text |-> c.Moods[c.DefaultMood].Instruction, key |-> key, events |-> warn]
          ELSE [text |-> Empty, key |-> key,
                events |-> warn \o <<"stdout: Warning: Default mood also not found">>]

\* answer: the sentence used for "neutral" with an empty instruction.
NeutralAnswerInstruction == <<"Answer in a standard, helpful, and informative tone.">>

\* answer: mood lookup with fallback; a successful fallback sets
\* selectedMoodKey to the default mood.
AnswerMoodLookup(c, key) ==
  IF key \in DOMAIN c.Moods
  THEN [text |-> c.Moods[key].Instruction, key |-> key, events |-> << >>]
  ELSE LET warn == IF key # Empty /\ key # c.DefaultMood
                   THEN <<"stdout: Warning: Mood key not found">> ELSE << >>
       IN IF c.DefaultMood \in DOMAIN c.Moods
          THEN [text |-> c.Moods[c.DefaultMood].Instruction, key |-> c.DefaultMood,
                events |-> warn]
          ELSE [text |-> Empty, key |-> key,
                events |-> warn \o <<"stdout: Warning: Default mood also not found">>]

\* Mutant of AnswerMood: the sentence for an empty "neutral" is not injected.
AnswerMood_NoSentence(c, key) == AnswerMoodLookup(c, key)

\* answer: "Provide a default instruction for neutral if its configured
\* instruction is empty".
AnswerMood(c, key) ==
  LET m == AnswerMoodLookup(c, key)
  IN IF m.text = Empty /\ m.key = Neutral
     THEN [m EXCEPT !.text = NeutralAnswerInstruction]
     ELSE m

\* Mutant of fixAssemble: the {MOOD_INSTRUCTION} substitution is not made
\* before the editor is opened.
fixAssemble_NoSubstitution ==
  /\ pc = "assemble" /\ cmd = "fix"
  /\ LET sel == SelectPrompt(AppConfig, promptKey, FixLanguage)
         m == FixMood(AppConfig, SelectedMood)
     IN /\ targetLanguage' = sel.language
        /\ chosenPromptTemplate' = sel.template
        /\ IF sel.template = Empty
           THEN /\ pc' = "exit" /\ exitCode' = 1
                /\ events' = events \o sel.events
                             \o <<"stderr: Error: No suitable prompt template">>
                /\ UNCHANGED <<selectedMoodKey, moodInstructionText, finalPrompt>>
           ELSE /\ selectedMoodKey' = m.key
                /\ moodInstructionText' = m.text
                /\ finalPrompt' = sel.template
                /\ events' = events \o sel.events \o m.events
                             \o <<"stdout: Opening editor">>
                /\ pc' = "editor"
                /\ UNCHANGED exitCode
  /\ UNCHANGED <<disk, hostVars, runs, resolved, flagVars, viperConfig, AppConfig, apiKey,
                 inputText, sentPrompt, processedText, tempFile>>

\* fix Run, from language resolution to "Opening editor for input...".
fixAssemble ==
  /\ pc = "assemble" /\ cmd = "fix"
  /\ LET sel == SelectPrompt(AppConfig, promptKey, FixLanguage)
         m == FixMood(AppConfig, SelectedMood)
     IN /\ targetLanguage' = sel.language
        /\ chosenPromptTemplate' = sel.template
        /\ IF sel.template = Empty
           THEN /\ pc' = "exit" /\ exitCode' = 1
                /\ events' = events \o sel.events
                             \o <<"stderr: Error: No suitable prompt template">>
                /\ UNCHANGED <<selectedMoodKey, moodInstructionText, finalPrompt>>
           ELSE /\ selectedMoodKey' = m.key
                /\ moodInstructionText' = m.text
                /\ finalPrompt' = ReplaceAll(sel.template, MOOD_INSTRUCTION, m.text)
                /\ events' = events \o sel.events \o m.events
                             \o <<"stdout: Opening editor">>
                /\ pc' = "editor"
                /\ UNCHANGED exitCode
  /\ UNCHANGED <<disk, hostVars, runs, resolved, flagVars, viperConfig, AppConfig, apiKey,
                 inputText, sentPrompt, processedText, tempFile>>

\* answer Run, from language resolution to "Opening editor for your question...".
answerAssemble ==
  /\ pc = "assemble" /\ cmd = "answer"
  /\ LET m == AnswerMood(AppConfig, SelectedMood)
     IN /\ targetLanguage' = (IF "language" \in changed THEN language
                              ELSE AppConfig.DefaultLanguage)
        /\ selectedMoodKey' = m.key
        /\ moodInstructionText' = m.text
        /\ chosenPromptTemplate' = AppConfig.Prompts.AnswerQuestion
        /\ IF AppConfig.Prompts.AnswerQuestion = Empty
           THEN /\ pc' = "exit" /\ exitCode' = 1
                /\ events' = events \o m.events
                             \o <<"stderr: Error: 'answer_question' prompt not defined">>
                /\ UNCHANGED finalPrompt
           ELSE /\ finalPrompt' = ReplaceAll(AppConfig.Prompts.AnswerQuestion,
                                             MOOD_INSTRUCTION, m.text)
                /\ events' = events \o m.events \o <<"stdout: Opening editor">>
                /\ pc' = "editor"
                /\ UNCHANGED exitCode
  /\ UNCHANGED <<disk, hostVars, runs, resolved, flagVars, viperConfig, AppConfig, apiKey,
                 inputText, sentPrompt, processedText, tempFile>>

\* explain Run, from language resolution to "Opening editor for text to explain...".
explainAssemble ==
  /\ pc = "assemble" /\ cmd = "explain"
  /\ targetLanguage' = (IF "language" \in changed THEN language
                        ELSE AppConfig.DefaultLanguage)
  /\ chosenPromptTemplate' = AppConfig.Prompts.ExplainText
  /\ LET info == IF "language" \in changed
                 THEN printVerbose(verbose, "verbose: INFO: Explanation language explicitly set")
                 ELSE printVerbose(verbose, "verbose: INFO: Explanation language not specified")
     IN IF AppConfig.Prompts.ExplainText = Empty
        THEN /\ pc' = "exit" /\ exitCode' = 1
             /\ events' = events \o info
                          \o <<"stderr: Error: 'explain_text' prompt not defined">>
             /\ UNCHANGED finalPrompt
        ELSE /\ finalPrompt' = AppConfig.Prompts.ExplainText
             /\ events' = events \o info \o <<"stdout: Opening editor">>
             /\ pc' = "editor"
             /\ UNCHANGED exitCode
  /\ UNCHANGED <<disk, hostVars, runs, resolved, flagVars, viperConfig, AppConfig, apiKey,
                 selectedMoodKey, moodInstructionText, inputText, sentPrompt, processedText,
                 tempFile>>

\* editor.GetTextFromEditor up to the start of the editor: the temporary
\* file is created and closed; a close failure removes it again.
OpenEditor ==
  /\ pc = "editor"
  /\ \E outcome \in {"ok", "create failed", "close failed"} :
       IF outcome = "ok"
       THEN /\ tempFile' = TRUE
            /\ events' = events \o <<"create temp file", "exec editor">>
            /\ pc' = "editing"
            /\ UNCHANGED exitCode
       ELSE /\ tempFile' = FALSE
            /\ pc' = "exit" /\ exitCode' = 1
            /\ events' = events
                 \o (IF outcome = "close failed"
                     THEN <<"create temp file", "remove temp file">> ELSE << >>)
                 \o <<"stderr: Error getting text from editor">>
  /\ UNCHANGED <<disk, hostVars, runs, resolved, flagVars, viperConfig, AppConfig, runVars>>

\* Mutant of EditorReturns: the temporary file is removed only when its
\* content was read, not on the error returns.
EditorReturns_RemoveOnSuccess ==
  /\ pc = "editing"
  /\ \/ \E outcome \in {"editor failed", "read failed"} :
          /\ tempFile' = TRUE
          /\ pc' = "exit" /\ exitCode' = 1
          /\ events' = events
               \o (IF outcome = "read failed" THEN <<"read temp file">> ELSE << >>)
               \o <<"stderr: Error getting text from editor">>
          /\ UNCHANGED inputText
     \/ \E t \in Texts :
          /\ tempFile' = FALSE
          /\ inputText' = t
          /\ IF TrimSpace(t) = Empty
             THEN /\ pc' = "exit" /\ exitCode' = 0
                  /\ events' = events \o <<"read temp file", "remove temp file",
                                           "stdout: No input provided. Exiting.">>
             ELSE /\ pc' = "client"
                  /\ events' = events \o <<"read temp file", "remove temp file",
                                           "stdout: Processing">>
                               \o (IF cmd = "explain" THEN << >>
                                   ELSE printVerbose(verbose, "verbose: INFO: Using Language, Mood"))
                  /\ UNCHANGED exitCode
  /\ UNCHANGED <<disk, hostVars, runs, resolved, flagVars, viperConfig, AppConfig, apiKey,
                 targetLanguage, chosenPromptTemplate, selectedMoodKey, moodInstructionText,
                 finalPrompt, sentPrompt, processedText>>

\* editor.GetTextFromEditor from the editor's exit on (the deferred
\* os.Remove runs on every return), and the caller's checks of the result.
EditorReturns ==
  /\ pc = "editing"
  /\ tempFile' = FALSE
  /\ \/ \E outcome \in {"editor failed", "read failed"} :
          /\ pc' = "exit" /\ exitCode' = 1
          /\ events' = events
               \o (IF outcome = "read failed" THEN <<"read temp file">> ELSE << >>)
               \o <<"remove temp file", "stderr: Error getting text from editor">>
          /\ UNCHANGED inputText
     \/ \E t \in Texts :
          /\ inputText' = t
          /\ IF TrimSpace(t) = Empty
             THEN /\ pc' = "exit" /\ exitCode' = 0
                  /\ events' = events \o <<"read temp file", "remove temp file",
                                           "stdout: No input provided. Exiting.">>
             ELSE /\ pc' = "client"
                  /\ events' = events \o <<"read temp file", "remove temp file",
                                           "stdout: Processing">>
                               \o (IF cmd = "explain" THEN << >>
                                   ELSE printVerbose(verbose, "verbose: INFO: Using Language, Mood"))
                  /\ UNCHANGED exitCode
  /\ UNCHANGED <<disk, hostVars, runs, resolved, flagVars, viperConfig, AppConfig, apiKey,
                 targetLanguage, chosenPromptTemplate, selectedMoodKey, moodInstructionText,
                 finalPrompt, sentPrompt, processedText>>

\* ai.NewGeminiClient
NewGeminiClient ==
  /\ pc = "client"
  /\ \E ok \in BOOLEAN :
       IF ok
       THEN /\ pc' = "submit"
            /\ events' = events \o <<"new client">>
            /\ UNCHANGED exitCode
       ELSE Fatal("stderr: Error creating AI client")
  /\ UNCHANGED <<disk, hostVars, runs, resolved, flagVars, viperConfig, AppConfig, runVars,
                 tempFile>>

\* GeminiClient.ProcessText: the placeholder substitution.
ProcessTextPrompt(textToProcess, promptTemplate, lang) ==
  ReplaceAll(ReplaceAll(promptTemplate, TEXT, textToProcess), LANGUAGE, lang)

\* Mutant of ProcessText: the error of the model call is reported but Run
\* carries on to the delivery step.
ProcessText_ContinueOnError ==
  /\ pc = "submit"
  /\ sentPrompt' = ProcessTextPrompt(inputText, finalPrompt, targetLanguage)
  /\ pc' = "deliver"
  /\ UNCHANGED exitCode
  /\ \/ /\ events' = events \o <<"model call", "stderr: Error processing text with AI">>
        /\ UNCHANGED processedText
     \/ \E r \in Responses :
          /\ processedText' = r
          /\ events' = events \o <<"model call">>
  /\ UNCHANGED <<disk, hostVars, runs, resolved, flagVars, viperConfig, AppConfig, apiKey,
                 targetLanguage, chosenPromptTemplate, selectedMoodKey, moodInstructionText,
                 finalPrompt, inputText, tempFile>>

\* GeminiClient.ProcessText and the caller's error check.
ProcessText ==
  /\ pc = "submit"
  /\ sentPrompt' = ProcessTextPrompt(inputText, finalPrompt, targetLanguage)
  /\ \/ /\ pc' = "exit" /\ exitCode' = 1
        /\ events' = events \o <<"model call", "stderr: Error processing text with AI">>
        /\ UNCHANGED processedText
     \/ \E r \in Responses :
          /\ processedText' = r
          /\ pc' = "deliver"
          /\ events' = events \o <<"model call">>
          /\ UNCHANGED exitCode
  /\ UNCHANGED <<disk, hostVars, runs, resolved, flagVars, viperConfig, AppConfig, apiKey,
                 targetLanguage, chosenPromptTemplate, selectedMoodKey, moodInstructionText,
                 finalPrompt, inputText, tempFile>>

\* Mutant of fixDeliver: a clipboard failure is fatal without the fallback
\* print of the text.
fixDeliver_NoFallbackPrint ==
  /\ pc = "deliver" /\ cmd = "fix"
  /\ pc' = "exit"
  /\ \E ok \in BOOLEAN :
       IF ok
       THEN /\ exitCode' = 0
            /\ events' = events \o <<"clipboard write",
                                     "stdout: Corrected text copied to clipboard!">>
       ELSE /\ exitCode' = 1
            /\ events' = events \o <<"clipboard write failed",
                                     "stderr: Error copying to clipboard",
                                     "stderr: Failed to copy to clipboard.">>
  /\ UNCHANGED <<disk, hostVars, runs, resolved, flagVars, viperConfig, AppConfig, runVars,
                 tempFile>>

\* fix Run, "Attempt to copy the processed text to the clipboard".
fixDeliver ==
  /\ pc = "deliver" /\ cmd = "fix"
  /\ pc' = "exit"
  /\ \E ok \in BOOLEAN :
       IF ok
       THEN /\ exitCode' = 0
            /\ events' = events \o <<"clipboard write",
                                     "stdout: Corrected text copied to clipboard!">>
       ELSE /\ exitCode' = 1
            /\ events' = events \o <<"clipboard write failed",
                                     "stderr: Error copying to clipboard",
                                     "stdout: result", "stderr: Failed to copy to clipboard.">>
  /\ UNCHANGED <<disk, hostVars, runs, resolved, flagVars, viperConfig, AppConfig, runVars,
                 tempFile>>

\* Mutant of printDeliver: a clipboard failure ends the run with status 1.
printDeliver_FatalCopy ==
  /\ pc = "deliver" /\ cmd \in {"answer", "explain"}
  /\ pc' = "exit"
  /\ IF copyToClipboard
     THEN \E ok \in BOOLEAN :
            /\ exitCode' = (IF ok THEN 0 ELSE 1)
            /\ events' = events \o <<"stdout: result">>
                 \o (IF ok THEN <<"clipboard write", "stdout: also copied to clipboard!">>
                     ELSE <<"clipboard write failed", "stderr: Warning: Error copying to clipboard">>)
     ELSE /\ exitCode' = 0
          /\ events' = events \o <<"stdout: result">>
  /\ UNCHANGED <<disk, hostVars, runs, resolved, flagVars, viperConfig, AppConfig, runVars,
                 tempFile>>

\* answer / explain Run, "Display ... in the terminal" and the optional copy.
printDeliver ==
  /\ pc = "deliver" /\ cmd \in {"answer", "explain"}
  /\ pc' = "exit"
  /\ exitCode' = 0
  /\ IF copyToClipboard
     THEN \E ok \in BOOLEAN :
            events' = events \o <<"stdout: result">>
              \o (IF ok THEN <<"clipboard write", "stdout: also copied to clipboard!">>
                  ELSE <<"clipboard write failed", "stderr: Warning: Error copying to clipboard">>)
     ELSE events' = events \o <<"stdout: result">>
  /\ UNCHANGED <<disk, hostVars, runs, resolved, flagVars, viperConfig, AppConfig, runVars,
                 tempFile>>

Next ==
  \/ initConfig
  \/ PersistentPreRunE
  \/ GetAPIKey
  \/ fixAssemble
  \/ answerAssemble
  \/ explainAssemble
  \/ OpenEditor
  \/ EditorReturns
  \/ NewGeminiClient
  \/ ProcessText
  \/ fixDeliver
  \/ printDeliver

Spec == Init /\ [][Next]_vars

\* ------------------------------------------- the credential specification
\* What GEMINI_API_KEY holds, whether `pass` is installed, whether
\* `pass gemini_api_key` exits with status 0 and what it prints.
KeySecrets ==
  [env : {Empty, <<"env-key">>, <<" ">>},
   passInstalled : BOOLEAN, passOK : BOOLEAN,
   passOutput : {Empty, <<" ", "\n">>, <<"pass-key", "\n">>,
                 <<"\n", "pass-key", " ", "\n", "note", "\n">>}]

\* Configuration files without, with an empty and with a set geminiApiKey.
KeyFiles ==
  {NoFile}
  \cup {YamlFile(MakeKV(Absent, Absent, Absent, Absent, key, Absent, Absent, Absent, Absent),
                 NoMoods) : key \in {Absent, Empty, <<"file-key">>}}

KeyEnvirons == {NoEnviron, ("QIK_GEMINIAPIKEY" :> <<"overlay-key">>)}

InitKey ==
  /\ disk \in [homeDir : {TRUE}, home : KeyFiles, cwd : {NoFile}, explicit : {NoFile}]
  /\ environ \in KeyEnvirons
  /\ host = AllOK
  /\ secrets \in KeySecrets
  /\ \E c \in {"fix", "answer", "explain"}, v \in BOOLEAN :
       Parsed([cmd |-> c, verbose |-> v, language |-> Unset, english |-> FALSE,
               prompt |-> Unset, mood |-> Unset, copy |-> FALSE], Empty)
  /\ ProcessStart

\* An invocation up to the end of the credential lookup.
NextKey ==
  \/ initConfig
  \/ PersistentPreRunE
  \/ GetAPIKey

SpecKey == InitKey /\ [][NextKey]_vars

\* ============================================================ properties
\* initConfig has finished in the current invocation.
ConfigResolved == pc \notin {"start", "init"}

\* The file the resolver loaded.
LoadedFile == viperConfig

\* Templates the user supplied, in the loaded file or in the environment.
SuppliedTemplates ==
  {LoadedFile.kv[k] : k \in DOMAIN LoadedFile.kv} \cup {environ[k] : k \in DOMAIN environ}

TaskKeys == {"Default", "EnglishFixOnly", "ExplainText", "AnswerQuestion"}

\* C1: after initConfig, whatever the configuration source and environment
\* overlay, defaultLanguage, editor, geminiModel and defaultMood are
\* non-empty, the four templates are non-empty, default and english_fix_only
\* contain {MOOD_INSTRUCTION}, and the moods mapping has at least one entry.
C1_ResolvedConfigPopulated ==
  ConfigResolved =>
    /\ AppConfig.DefaultLanguage # Empty
    /\ AppConfig.Editor # Empty
    /\ AppConfig.GeminiModel # Empty
    /\ AppConfig.DefaultMood # Empty
    /\ \A t \in TaskKeys : AppConfig.Prompts[t] # Empty
    /\ Contains(AppConfig.Prompts.Default, MOOD_INSTRUCTION)
    /\ Contains(AppConfig.Prompts.EnglishFixOnly, MOOD_INSTRUCTION)
    /\ Cardinality(DOMAIN AppConfig.Moods) >= 1

\* C1 witness: a file that sets stale templates and leaves fields empty has
\* been resolved.
C1_Witness ==
  /\ pc = "prerun"
  /\ LoadedFile.kind = "yaml"
  /\ "prompts.default" \in DOMAIN LoadedFile.kv
  /\ LoadedFile.kv["prompts.default"] = StaleTemplate
  /\ "editor" \in DOMAIN LoadedFile.kv /\ LoadedFile.kv["editor"] = Empty
  /\ AppConfig.Prompts.Default = defaultPromptsConfig.Default
  /\ AppConfig.Editor # Empty

\* C2 as stated: after resolution every task's template contains {TEXT}
\* whatever the loaded configuration supplied, and default and
\* english_fix_only contain {MOOD_INSTRUCTION}.
C2_Original ==
  ConfigResolved =>
    /\ \A t \in TaskKeys : Contains(AppConfig.Prompts[t], TEXT)
    /\ Contains(AppConfig.Prompts.Default, MOOD_INSTRUCTION)
    /\ Contains(AppConfig.Prompts.EnglishFixOnly, MOOD_INSTRUCTION)

\* C2 amended: after resolution default and english_fix_only contain
\* {MOOD_INSTRUCTION}, and every task's template contains {TEXT} unless it is
\* a non-empty template the loaded configuration supplied, which is kept as
\* supplied even when it has no {TEXT}.
C2_Amended ==
  ConfigResolved =>
    /\ Contains(AppConfig.Prompts.Default, MOOD_INSTRUCTION)
    /\ Contains(AppConfig.Prompts.EnglishFixOnly, MOOD_INSTRUCTION)
    /\ \A t \in TaskKeys :
         \/ Contains(AppConfig.Prompts[t], TEXT)
         \/ AppConfig.Prompts[t] # Empty /\ AppConfig.Prompts[t] \in SuppliedTemplates

\* C2 witness: a supplied template without {TEXT} was kept while an absent
\* one was replaced by the compiled-in template.
C2_Witness ==
  /\ pc = "prerun"
  /\ AppConfig.Prompts.Default = MoodOnlyTemplate
  /\ ~Contains(AppConfig.Prompts.Default, TEXT)
  /\ "prompts.explain_text" \notin DOMAIN LoadedFile.kv
  /\ AppConfig.Prompts.ExplainText = defaultPromptsConfig.ExplainText

\* C3 as stated: the resolved moods mapping always contains the seven
\* built-in mood keys, also when the loaded configuration defines a non-empty
\* moods mapping that omits some of them.
C3_Original ==
  ConfigResolved =>
    /\ \A k \in BuiltinMoodKeys :
         k \notin DOMAIN LoadedMoods(LoadedFile) =>
           k \in DOMAIN AppConfig.Moods /\ AppConfig.Moods[k] = getDefaultMoods[k]
    /\ Cardinality(DOMAIN AppConfig.Moods) >= 7

\* C3 amended: when the loaded configuration's moods mapping is absent or
\* empty, the resolved mapping holds the seven built-in moods with their
\* compiled-in entries; a non-empty loaded mapping is kept exactly as loaded
\* and built-in moods it omits are not added.
C3_Amended ==
  ConfigResolved =>
    IF DOMAIN LoadedMoods(LoadedFile) = {}
    THEN /\ \A k \in BuiltinMoodKeys :
              k \in DOMAIN AppConfig.Moods /\ AppConfig.Moods[k] = getDefaultMoods[k]
         /\ Cardinality(DOMAIN AppConfig.Moods) >= 7
    ELSE AppConfig.Moods = LoadedMoods(LoadedFile)

\* C3 witness: a file that sets other fields but no moods was resolved.
C3_Witness ==
  /\ pc = "prerun"
  /\ LoadedFile.kind = "yaml"
  /\ LoadedFile.moods = NoMoods
  /\ "defaultmood" \in DOMAIN LoadedFile.kv
  /\ Cardinality(DOMAIN AppConfig.Moods) = 7

\* C5: every resolution of the configuration on the same disk and
\* environment yields the same Configuration, field for field, also when the
\* first resolution created the default file the later ones read.
C5_ResolutionIdempotent ==
  \A i \in DOMAIN resolved : \A j \in DOMAIN resolved : resolved[i] = resolved[j]

\* C5 witness: the second invocation resolved from the default file the
\* first one created, under an environment overlay.
C5_Witness ==
  /\ Len(resolved) >= 2
  /\ disk.home = YamlMarshal(defaultCfg)
  /\ cfgFile = Empty
  /\ environ # NoEnviron
  /\ pc = "prerun"

\* The assemble step of Run has executed in the current invocation.
AssembleRan == apiKey # Empty /\ pc \notin {"init", "prerun", "run", "assemble"}

\* Assembly ended without a fatal error: the editor prompt was printed.
Assembled == AssembleRan /\ Contains(events, <<"stdout: Opening editor">>)

\* The instruction of the configured default mood, "" when it is not defined.
DefaultMoodInstruction ==
  IF AppConfig.DefaultMood \in DOMAIN AppConfig.Moods
  THEN AppConfig.Moods[AppConfig.DefaultMood].Instruction
  ELSE Empty

\* fix resolves "neutral" while the moods mapping has no "neutral" entry.
NeutralMissingInFix ==
  /\ cmd = "fix" /\ AssembleRan
  /\ SelectedMood = Neutral
  /\ Neutral \notin DOMAIN AppConfig.Moods

\* C4 as stated: in fix, when the mood key being resolved is "neutral" and
\* the moods mapping has no "neutral" entry, the run does not fail and the
\* text substituted for {MOOD_INSTRUCTION} is empty, whatever the configured
\* default mood is.
C4_Original ==
  NeutralMissingInFix =>
    /\ Assembled
    /\ moodInstructionText = Empty
    /\ finalPrompt = ReplaceAll(chosenPromptTemplate, MOOD_INSTRUCTION, Empty)

\* C4 amended: in fix, when the mood key being resolved is "neutral" and the
\* moods mapping has no "neutral" entry, the run does not fail and the text
\* substituted for {MOOD_INSTRUCTION} is the configured default mood's
\* instruction when the default mood is in the mapping, and the empty string
\* when it is not (in particular when the default mood is "neutral").
C4_Amended ==
  NeutralMissingInFix =>
    /\ Assembled
    /\ moodInstructionText = DefaultMoodInstruction
    /\ finalPrompt = ReplaceAll(chosenPromptTemplate, MOOD_INSTRUCTION, DefaultMoodInstruction)
    /\ AppConfig.DefaultMood \notin DOMAIN AppConfig.Moods => moodInstructionText = Empty

\* C4 witness: --mood neutral fell back to a defined default mood with a
\* non-empty instruction.
C4_Witness ==
  /\ NeutralMissingInFix /\ Assembled
  /\ "mood" \in changed
  /\ AppConfig.DefaultMood \in DOMAIN AppConfig.Moods
  /\ moodInstructionText # Empty

\* A warning about the mood was printed.
MoodWarningPrinted ==
  \/ Contains(events, <<"stdout: Warning: Mood key not found">>)
  \/ Contains(events, <<"stdout: Warning: Default mood also not found">>)

\* C6: with defaultMood "neutral", for every mood key k that is not in the
\* moods mapping (with or without a "neutral" entry), --mood k substitutes for
\* {MOOD_INSTRUCTION} the same text as --mood neutral, in fix and in answer,
\* and prints a warning.  Stated here for the non-empty keys k.
C6_FallbackSameAsNeutral ==
  (/\ cmd \in {"fix", "answer"} /\ Assembled
   /\ AppConfig.DefaultMood = Neutral
   /\ "mood" \in changed
   /\ moodKey # Empty
   /\ moodKey \notin DOMAIN AppConfig.Moods)
  => /\ moodInstructionText = (IF cmd = "fix" THEN FixMood(AppConfig, Neutral).text
                               ELSE AnswerMood(AppConfig, Neutral).text)
     /\ MoodWarningPrinted

\* C7: when the resolved mood key is "neutral" and its instruction is empty,
\* answer substitutes the fixed sentence and fix substitutes the empty string;
\* for a resolved key other than "neutral" with an empty instruction answer
\* substitutes the empty string.
C7_NeutralAsymmetry ==
  /\ (cmd = "answer" /\ Assembled
      /\ AnswerMoodLookup(AppConfig, SelectedMood).key = Neutral
      /\ AnswerMoodLookup(AppConfig, SelectedMood).text = Empty)
     => /\ moodInstructionText = NeutralAnswerInstruction
        /\ finalPrompt = ReplaceAll(chosenPromptTemplate, MOOD_INSTRUCTION,
                                    NeutralAnswerInstruction)
  /\ (cmd = "fix" /\ Assembled
      /\ selectedMoodKey = Neutral
      /\ FixMood(AppConfig, SelectedMood).text = Empty)
     => /\ moodInstructionText = Empty
        /\ finalPrompt = ReplaceAll(chosenPromptTemplate, MOOD_INSTRUCTION, Empty)
  /\ (cmd = "answer" /\ Assembled
      /\ AnswerMoodLookup(AppConfig, SelectedMood).key # Neutral
      /\ AnswerMoodLookup(AppConfig, SelectedMood).text = Empty)
     => /\ moodInstructionText = Empty
        /\ finalPrompt = ReplaceAll(chosenPromptTemplate, MOOD_INSTRUCTION, Empty)

\* C7 witness: answer resolved "neutral", defined with an empty instruction,
\* with the compiled-in answer template, and injected the sentence.
C7_Witness ==
  /\ cmd = "answer" /\ Assembled
  /\ selectedMoodKey = Neutral
  /\ Neutral \in DOMAIN AppConfig.Moods
  /\ AppConfig.Moods[Neutral].Instruction = Empty
  /\ chosenPromptTemplate = defaultPromptsConfig.AnswerQuestion
  /\ Contains(finalPrompt, NeutralAnswerInstruction)

\* The command line gives --english with a --language that is non-empty and
\* not "English" in any letter case.
EnglishConflict ==
  /\ argv.cmd = "fix" /\ argv.english
  /\ argv.language \notin {Unset, Empty}
  /\ ~EqualFold(argv.language, English)

EditorEvents == {"create temp file", "exec editor", "read temp file"}
ModelEvents == {"new client", "model call"}
ClipboardEvents == {"clipboard write", "clipboard write failed"}
CredentialEvents == {"getenv GEMINI_API_KEY", "look up pass", "exec pass"}
ConfigEvents == {"search config", "read config", "mkdir", "mkdir failed", "write config",
                 "write failed"}

Happened(kinds) == \E i \in DOMAIN events : events[i] \in kinds

\* C8: fix with --english and a non-English --language ends with an error
\* and exit status 1, and the editor is never invoked, no model call is made
\* and nothing is written to the clipboard.
C8_ConflictFailsFast ==
  EnglishConflict =>
    /\ pc \in {"init", "prerun", "exit"}
    /\ pc = "exit" =>
         /\ exitCode = 1
         /\ events[Len(events)] = "stderr: --english flag is incompatible with --language"
    /\ ~Happened(EditorEvents \cup ModelEvents \cup ClipboardEvents)

\* C8 witness: the conflicting invocation has exited.
C8_Witness ==
  /\ EnglishConflict /\ pc = "exit" /\ exitCode = 1
  /\ argv.language = German

\* C9 as stated: the conflict is detected before any I/O: no configuration
\* file or directory is read or created, no credential lookup runs and no
\* editor is started before the conflict error is reported.
C9_Original ==
  (EnglishConflict /\ pc = "exit") =>
    ~Happened(ConfigEvents \cup CredentialEvents \cup EditorEvents)

\* C9 amended: the conflict is detected after configuration resolution, which
\* has searched for the configuration file (and read it, or created the
\* default file) by then, and before any other I/O: no credential lookup runs
\* and no editor is started before the conflict error is reported.
C9_Amended ==
  (EnglishConflict /\ pc = "exit") =>
    /\ events[1] = "search config"
    /\ events[Len(events)] = "stderr: --english flag is incompatible with --language"
    /\ ~Happened(CredentialEvents \cup EditorEvents)

\* C9 witness: the conflict was reported after the resolver had created the
\* default configuration file.
C9_Witness ==
  /\ EnglishConflict /\ pc = "exit"
  /\ Happened({"write config"})
  /\ disk.home = YamlMarshal(defaultCfg)

\* The end-to-end scenario of C10: compiled-in templates and moods, language
\* "English", mood "professional", text "helo wrold", no --prompt given, and
\* the prompt has been handed to the model.
HeloWroldScenario ==
  /\ cmd = "fix" /\ argv.prompt = Unset
  /\ AppConfig.Prompts = defaultPromptsConfig
  /\ AppConfig.Moods = getDefaultMoods
  /\ targetLanguage = English
  /\ selectedMoodKey = Professional
  /\ inputText = <<"helo wrold">>
  /\ Happened({"model call"})

\* C10: in that scenario the string handed to the model is the
\* english_fix_only template with the substitutions applied; it contains
\* "helo wrold", "English" and the professional mood's instruction, and no
\* {MOOD_INSTRUCTION} token.
C10_EndToEnd ==
  HeloWroldScenario =>
    /\ sentPrompt =
         ReplaceAll(
           ReplaceAll(
             ReplaceAll(defaultPromptsConfig.EnglishFixOnly, MOOD_INSTRUCTION,
                        getDefaultMoods[Professional].Instruction),
             TEXT, <<"helo wrold">>),
           LANGUAGE, English)
    /\ Contains(sentPrompt, <<"helo wrold">>)
    /\ Contains(sentPrompt, English)
    /\ Contains(sentPrompt, getDefaultMoods[Professional].Instruction)
    /\ ~Contains(sentPrompt, MOOD_INSTRUCTION)

\* C10 witness: the scenario was reached through --language English and
\* --mood professional.
C10_Witness ==
  /\ HeloWroldScenario
  /\ argv.language = English /\ ~argv.english
  /\ argv.mood = Professional

\* GetTextFromEditor returned a value (not an error) in the current invocation.
InputCaptured ==
  /\ Happened({"read temp file"})
  /\ ~Happened({"stderr: Error getting text from editor"})

\* Every character of the captured text is white space (the empty text included).
WhitespaceOnly(s) == \A i \in DOMAIN s : IsSpace(s[i])

\* The generated text was printed to the terminal.
ResultPrinted == Happened({"stdout: result"})

\* C11: in fix, explain and answer, when the text captured from the editor is
\* empty or whitespace-only the invocation ends with exit code 0 and no model
\* client is created, no model call is made, no result is printed and nothing
\* is written to the clipboard.
C11_EmptyInputExits ==
  (InputCaptured /\ WhitespaceOnly(inputText)) =>
    /\ pc = "exit" /\ exitCode = 0
    /\ events[Len(events)] = "stdout: No input provided. Exiting."
    /\ ~Happened(ModelEvents \cup ClipboardEvents)
    /\ ~ResultPrinted

\* C11 witness: a text of white space only was captured and the run exited.
C11_Witness ==
  /\ InputCaptured /\ inputText = <<" ", "\n">>
  /\ pc = "exit" /\ exitCode = 0

\* The fatal messages of the three steps that can fail.
CredentialFailure == {"stderr: Error getting API key", "stderr: Gemini API key not found"}
CaptureFailure == {"stderr: Error getting text from editor"}
ModelCallFailure == {"stderr: Error processing text with AI"}

\* How many times an event occurred in the current invocation.
Count(kind) == Cardinality({i \in DOMAIN events : events[i] = kind})

\* C12: in fix, explain and answer, a failure of credential retrieval, of text
\* capture or of the model call ends the invocation at once with a non-zero
\* exit: the failure message is the last thing that happens, no editor runs
\* after a credential failure, no model client or call follows a capture
\* failure, no result is printed, nothing is written to the clipboard, and
\* the credential lookup, the editor and the model call each ran at most once.
C12_FailureIsTerminal ==
  Happened(CredentialFailure \cup CaptureFailure \cup ModelCallFailure) =>
    /\ pc = "exit" /\ exitCode > 0
    /\ events[Len(events)] \in CredentialFailure \cup CaptureFailure \cup ModelCallFailure
    /\ Happened(CredentialFailure) => ~Happened(EditorEvents \cup ModelEvents)
    /\ Happened(CaptureFailure) => ~Happened(ModelEvents)
    /\ ~ResultPrinted
    /\ ~Happened(ClipboardEvents)
    /\ \A k \in {"getenv GEMINI_API_KEY", "exec pass", "create temp file", "exec editor",
                 "new client", "model call"} : Count(k) <= 1

\* C12 witness: the model call failed after the credential lookup and the
\* editor had succeeded, and the run has ended with status 1.
C12_Witness ==
  /\ Happened(ModelCallFailure)
  /\ Count("getenv GEMINI_API_KEY") = 1 /\ Count("exec editor") = 1 /\ Count("model call") = 1
  /\ pc = "exit" /\ exitCode = 1

\* The model call of the current invocation returned a text.
ModelCallSucceeded == Happened({"model call"}) /\ ~Happened(ModelCallFailure)

\* The position of the first occurrence of an event, 0 when it never occurred.
FirstIndex(kind) ==
  IF Happened({kind}) THEN CHOOSE i \in DOMAIN events :
                             events[i] = kind /\ \A j \in 1..(i - 1) : events[j] # kind
  ELSE 0

\* C13: in fix, after a successful model call, a failed clipboard write is
\* followed by the generated text on the terminal and then by the fatal
\* message and a non-zero exit; after a successful clipboard write the text is
\* not printed and the exit code is 0.
C13_FixClipboardFallback ==
  (cmd = "fix" /\ ModelCallSucceeded /\ pc = "exit") =>
    /\ Count("clipboard write") + Count("clipboard write failed") = 1
    /\ Happened({"clipboard write failed"}) =>
         /\ ResultPrinted
         /\ FirstIndex("clipboard write failed") < FirstIndex("stdout: result")
         /\ events[Len(events)] = "stderr: Failed to copy to clipboard."
         /\ exitCode > 0
    /\ Happened({"clipboard write"}) =>
         /\ ~ResultPrinted
         /\ exitCode = 0

\* C13 witness: fix could not write to the clipboard, printed the text and
\* exited with status 1.
C13_Witness ==
  /\ cmd = "fix" /\ ModelCallSucceeded /\ pc = "exit"
  /\ Happened({"clipboard write failed"}) /\ ResultPrinted /\ exitCode = 1

\* C14: in explain and answer, after a successful model call the result is
\* printed, and printed before any clipboard write; the clipboard write is
\* attempted exactly when --copy is set; a clipboard failure is followed by a
\* warning only and the invocation ends with exit code 0.
C14_PrintThenOptionalCopy ==
  (cmd \in {"answer", "explain"} /\ ModelCallSucceeded /\ pc = "exit") =>
    /\ ResultPrinted
    /\ exitCode = 0
    /\ Happened(ClipboardEvents) <=> argv.copy
    /\ \A k \in ClipboardEvents :
         Happened({k}) => FirstIndex("stdout: result") < FirstIndex(k)
    /\ Count("clipboard write") + Count("clipboard write failed") <= 1
    /\ Happened({"clipboard write failed"}) =>
         events[Len(events)] = "stderr: Warning: Error copying to clipboard"

\* C14 witness: answer --copy printed the result, failed to write to the
\* clipboard and still exited with status 0.
C14_Witness ==
  /\ cmd = "answer" /\ argv.copy /\ ModelCallSucceeded /\ pc = "exit"
  /\ Happened({"clipboard write failed"}) /\ ResultPrinted /\ exitCode = 0

\* The credential lookup of the current invocation has returned.
KeyLookupDone ==
  /\ pc \notin {"init", "prerun", "run"}
  /\ ~Happened({"stderr: --english flag is incompatible with --language"})

\* The three credentials as GetGeminiAPIKey sees them: the environment
\* variable, the trimmed output of a successful `pass gemini_api_key`, and
\* the configKey argument.
EnvCredential == secrets.env
PassCredential ==
  IF secrets.passInstalled /\ secrets.passOK THEN TrimSpace(secrets.passOutput) ELSE Empty
ConfigCredential == GetString(viperConfig, environ, "geminiapikey")

\* C15: GetGeminiAPIKey returns the first non-empty credential in the order
\* GEMINI_API_KEY, `pass` entry (its first line), configuration field: a
\* non-empty environment value is returned without running the `pass` lookup,
\* a non-empty `pass` value wins over the configuration field, and an error is
\* returned exactly when all three are empty or unavailable.
C15_CredentialOrder ==
  KeyLookupDone =>
    /\ EnvCredential # Empty =>
         /\ apiKey = EnvCredential
         /\ ~Happened({"look up pass", "exec pass"})
    /\ (EnvCredential = Empty /\ PassCredential # Empty) =>
         /\ apiKey = FirstLine(PassCredential)
         /\ apiKey # Empty
    /\ (EnvCredential = Empty /\ PassCredential = Empty /\ ConfigCredential # Empty) =>
         apiKey = ConfigCredential
    /\ Happened(CredentialFailure)
         <=> (EnvCredential = Empty /\ PassCredential = Empty /\ ConfigCredential = Empty)
    /\ Happened(CredentialFailure) => (pc = "exit" /\ exitCode = 1)

\* C15 witness: GEMINI_API_KEY is empty, `pass` prints a multi-line entry and
\* the configuration also holds a key: the first line of the entry is used.
C15_Witness ==
  /\ KeyLookupDone /\ pc = "assemble"
  /\ EnvCredential = Empty
  /\ secrets.passOutput = <<"\n", "pass-key", " ", "\n", "note", "\n">>
  /\ ConfigCredential = <<"file-key">>
  /\ apiKey = <<"pass-key", " ">>

\* GetTextFromEditor is between creating the temporary file and returning.
InGetTextFromEditor == pc = "editing"

\* C16: whenever GetTextFromEditor has returned, with a value or with an
\* error (close failure, editor failure, read failure), the temporary file it
\* created has been removed: a temporary file exists only while
\* GetTextFromEditor is running, so none exists at the model call, at the
\* clipboard write or at any exit.
C16_TempFileRemoved ==
  /\ tempFile => InGetTextFromEditor
  /\ (Happened({"create temp file"}) /\ ~InGetTextFromEditor) =>
       /\ Count("create temp file") = 1 /\ Count("remove temp file") = 1
       /\ FirstIndex("create temp file") < FirstIndex("remove temp file")
  /\ Happened(ModelEvents \cup ClipboardEvents) \/ pc = "exit" => ~tempFile

\* C16 witness: the editor exited abnormally, GetTextFromEditor returned the
\* error, and the temporary file is gone at the fatal exit.
C16_Witness ==
  /\ Happened({"exec editor"}) /\ ~Happened({"read temp file"})
  /\ Happened(CaptureFailure)
  /\ Happened({"remove temp file"})
  /\ ~tempFile /\ pc = "exit" /\ exitCode = 1

\* The first existing source in the order --config path, user-scoped file,
\* current-directory file; "none" when no source exists.
FirstExistingSource(d, path) ==
  IF path # Empty /\ d.explicit.kind # "absent" THEN "explicit"
  ELSE IF d.home.kind # "absent" THEN "home"
  ELSE IF d.cwd.kind # "absent" THEN "cwd"
  ELSE "none"

\* What viper holds after reading a source: its settings, or nothing when the
\* file is not parseable.
ReadOf(f) == IF f.kind = "yaml" THEN f ELSE NoFile

\* C17: on a host where the home directory resolves and is writable, the
\* resolver reads the first existing source in the order explicit --config
\* path, $HOME/.config/qik/config.yaml, ./config.yaml and leaves the disk as
\* it is, and it writes a default file at the user-scoped path (and reads it)
\* exactly when none of these sources exists, also when a --config path is
\* given and that file does not exist.
C17_SourceOrder ==
  [][(pc = "init" /\ pc' = "prerun" /\ host = AllOK) =>
       LET src == FirstExistingSource(disk, cfgFile)
       IN /\ src # "none" => (disk' = disk /\ viperConfig' = ReadOf(disk[src]))
          /\ src = "none" =>
               /\ disk'.home = YamlMarshal(defaultCfg)
               /\ viperConfig' = YamlMarshal(defaultCfg)]_vars

\* What the assembly statements of Run print: the warnings of template
\* selection and mood resolution, the missing-template fatal message, and the
\* line printed just before the editor is started.
AssemblyMessages ==
  {"stdout: Warning: Unknown prompt key", "stdout: Warning: Mood key not found",
   "stdout: Warning: Default mood also not found",
   "stderr: Error: No suitable prompt template",
   "stderr: Error: 'answer_question' prompt not defined",
   "stdout: Opening editor"}

\* The step of Run an event belongs to, 0 for the events of other code.
Phase(e) ==
  IF e \in CredentialEvents THEN 1
  ELSE IF e \in AssemblyMessages THEN 2
  ELSE IF e \in EditorEvents \cup {"remove temp file"} THEN 3
  ELSE IF e \in ModelEvents THEN 4
  ELSE IF e \in ClipboardEvents \cup {"stdout: result"} THEN 5
  ELSE 0

\* C18 as stated: in fix and answer, mood resolution, template selection and
\* the {MOOD_INSTRUCTION} substitution (with their warnings and the
\* missing-template check) happen only after the input text has been captured
\* from the editor.
C18_Original ==
  (cmd \in {"fix", "answer"} /\ AssembleRan) => InputCaptured

\* C18 amended: in fix and answer the steps occur in the order credential
\* lookup, assembly, editor, model client and call, delivery: language and
\* mood resolution, template selection and the {MOOD_INSTRUCTION}
\* substitution, with their warnings and the missing-template check, are
\* complete before the editor is opened, and a missing template ends the run
\* without the editor being opened.
C18_Amended ==
  cmd \in {"fix", "answer"} =>
    /\ \A i, j \in DOMAIN events :
         (i < j /\ Phase(events[i]) > 0 /\ Phase(events[j]) > 0)
           => Phase(events[i]) <= Phase(events[j])
    /\ Happened(EditorEvents) =>
         /\ Assembled
         /\ chosenPromptTemplate # Empty
         /\ finalPrompt = ReplaceAll(chosenPromptTemplate, MOOD_INSTRUCTION, moodInstructionText)
    /\ Happened({"stderr: Error: No suitable prompt template",
                 "stderr: Error: 'answer_question' prompt not defined"})
         => ~Happened(EditorEvents)

\* C18 witness: the editor is open, no text has been captured yet, and the
\* mood warning and the substitution are already done.
C18_Witness ==
  /\ cmd \in {"fix", "answer"} /\ pc = "editing"
  /\ ~Happened({"read temp file"})
  /\ MoodWarningPrinted
  /\ moodInstructionText # Empty
  /\ Contains(finalPrompt, moodInstructionText)
  /\ ~Contains(finalPrompt, MOOD_INSTRUCTION)

\* The prompt has been handed to the model client.
Submitted == Happened({"model call"})

\* The command line carries a --language value that is not the empty string.
ExplicitLanguage == argv.language \notin {Unset, Empty}

\* fix: the english_fix_only template key is in effect through --prompt, in
\* any letter case.
EnglishPromptKey ==
  argv.prompt # Unset /\ ToLower(argv.prompt) = <<"english_fix_only">>

\* C19 as stated: in fix, answer and explain, an explicit non-empty --language
\* value is the language string passed to the model client, whatever the other
\* flags are; without --language the string is Configuration.defaultLanguage.
C19_Original ==
  Submitted =>
    /\ ExplicitLanguage => targetLanguage = argv.language
    /\ argv.language = Unset => targetLanguage = AppConfig.DefaultLanguage

\* The language string the code passes to the model client.
ExpectedLanguage ==
  IF cmd = "fix"
  THEN IF argv.english \/ EnglishPromptKey THEN English
       ELSE IF ExplicitLanguage THEN argv.language
       ELSE AppConfig.DefaultLanguage
  ELSE IF argv.language # Unset THEN argv.language
       ELSE AppConfig.DefaultLanguage

\* C19 amended: in answer and explain an explicit non-empty --language value
\* is passed to the model client and without --language
\* Configuration.defaultLanguage is; in fix the same holds unless --english or
\* --prompt english_fix_only (in any letter case) is in effect, in which case
\* the string passed is "English" whatever --language says.
C19_Amended ==
  Submitted =>
    /\ targetLanguage = ExpectedLanguage
    /\ sentPrompt = ProcessTextPrompt(inputText, finalPrompt, ExpectedLanguage)
    /\ (cmd \in {"answer", "explain"} /\ ExplicitLanguage) => targetLanguage = argv.language
    /\ (cmd \in {"answer", "explain"} /\ argv.language = Unset)
         => targetLanguage = AppConfig.DefaultLanguage
    /\ (cmd = "fix" /\ ~argv.english /\ ~EnglishPromptKey) =>
         /\ ExplicitLanguage => targetLanguage = argv.language
         /\ argv.language = Unset => targetLanguage = AppConfig.DefaultLanguage
    /\ (cmd = "fix" /\ (argv.english \/ EnglishPromptKey)) => targetLanguage = English

\* C19 witness: fix --language German --prompt english_fix_only handed the
\* model a prompt with the language "English".
C19_Witness ==
  /\ Submitted /\ cmd = "fix"
  /\ argv.language = German /\ EnglishPromptKey /\ ~argv.english
  /\ targetLanguage = English

\* fix: the template key in effect: the --prompt value when given, else
\* english_fix_only under --english, else none.
EffectivePromptKey ==
  IF argv.prompt # Unset THEN argv.prompt
  ELSE IF argv.english THEN <<"english_fix_only">>
  ELSE Empty

\* C20: in fix, the key "default" or "english_fix_only" (in any letter case)
\* selects that template whatever the resolved language is; with no key in
\* effect a resolved language equal to "English" in any letter case selects
\* english_fix_only and any other language selects default.
C20_TemplateSelection ==
  (cmd = "fix" /\ Assembled) =>
    /\ ToLower(EffectivePromptKey) = <<"default">>
         => chosenPromptTemplate = AppConfig.Prompts.Default
    /\ ToLower(EffectivePromptKey) = <<"english_fix_only">>
         => chosenPromptTemplate = AppConfig.Prompts.EnglishFixOnly
    /\ EffectivePromptKey = Empty =>
         chosenPromptTemplate = (IF EqualFold(targetLanguage, English)
                                 THEN AppConfig.Prompts.EnglishFixOnly
                                 ELSE AppConfig.Prompts.Default)

\* C20 witness: --prompt DEFAULT with the language English selected the
\* default template, which differs from english_fix_only.
C20_Witness ==
  /\ cmd = "fix" /\ Assembled
  /\ argv.prompt = <<"DEFAULT">>
  /\ EqualFold(targetLanguage, English)
  /\ chosenPromptTemplate = AppConfig.Prompts.Default
  /\ AppConfig.Prompts.Default # AppConfig.Prompts.EnglishFixOnly

\* fix was given a non-empty --prompt key that is neither "default" nor
\* "english_fix_only" in any letter case.
UnknownPromptKey ==
  /\ argv.prompt \notin {Unset, Empty}
  /\ ToLower(argv.prompt) \notin {<<"default">>, <<"english_fix_only">>}

\* The language fix resolves before template selection: "English" under
\* --english, else the --language value, else the configured default.
LanguageBeforeSelection ==
  IF argv.english THEN English
  ELSE IF ExplicitLanguage THEN argv.language
  ELSE AppConfig.DefaultLanguage

\* C21: in fix, a (non-empty) --prompt key that is neither "default" nor
\* "english_fix_only" prints a warning, selects the default template and
\* leaves the resolved language as it was before template selection: the
\* configured default, the --language value, or "English" under --english.
C21_UnknownPromptKey ==
  (cmd = "fix" /\ AssembleRan /\ UnknownPromptKey) =>
    /\ Assembled
    /\ Count("stdout: Warning: Unknown prompt key") = 1
    /\ chosenPromptTemplate = AppConfig.Prompts.Default
    /\ targetLanguage = LanguageBeforeSelection

\* C21 witness: --english --prompt bogus chose the default template, which
\* differs from english_fix_only, and kept the language "English".
C21_Witness ==
  /\ cmd = "fix" /\ Assembled /\ UnknownPromptKey /\ argv.english
  /\ Happened({"stdout: Warning: Unknown prompt key"})
  /\ chosenPromptTemplate = AppConfig.Prompts.Default
  /\ AppConfig.Prompts.Default # AppConfig.Prompts.EnglishFixOnly
  /\ targetLanguage = English

\* The two warnings of mood resolution.
KeyNotFoundWarned == Happened({"stdout: Warning: Mood key not found"})
DefaultNotFoundWarned == Happened({"stdout: Warning: Default mood also not found"})

\* The requested mood key is in the moods mapping / the default mood is.
RequestedFound == SelectedMood \in DOMAIN AppConfig.Moods
DefaultFound == AppConfig.DefaultMood \in DOMAIN AppConfig.Moods

\* C22 as stated: in fix and answer, a requested key found in the moods
\* mapping yields its instruction with no warning; a key not found and
\* different from the default yields a warning and the default mood's
\* instruction; a default that is itself missing yields a warning and the
\* empty instruction; and the warning is printed whenever an explicitly
\* requested key is not found and differs from the default, the empty key
\* included.
C22_Original ==
  (cmd \in {"fix", "answer"} /\ Assembled) =>
    /\ RequestedFound =>
         /\ moodInstructionText = AppConfig.Moods[SelectedMood].Instruction
         /\ ~MoodWarningPrinted
    /\ (~RequestedFound /\ SelectedMood # AppConfig.DefaultMood /\ DefaultFound) =>
         /\ KeyNotFoundWarned
         /\ moodInstructionText = DefaultMoodInstruction
    /\ (~RequestedFound /\ ~DefaultFound) =>
         /\ DefaultNotFoundWarned
         /\ moodInstructionText = Empty
    /\ ("mood" \in changed /\ ~RequestedFound /\ SelectedMood # AppConfig.DefaultMood)
         => KeyNotFoundWarned

\* The instruction mood resolution looks up, before the neutral sentence of
\* answer: the requested mood's, else the default mood's, else "".
LookedUpInstruction ==
  IF RequestedFound THEN AppConfig.Moods[SelectedMood].Instruction
  ELSE DefaultMoodInstruction

\* The key the instruction is attributed to: answer moves to the default mood
\* after a successful fallback, fix keeps the requested key.
ResolvedMoodKey ==
  IF cmd = "answer" /\ ~RequestedFound /\ DefaultFound THEN AppConfig.DefaultMood
  ELSE SelectedMood

\* C22 amended: as stated, except that the not-found warning is printed only
\* for a non-empty requested key (an explicitly supplied empty key falls back
\* without that warning), and that in answer an empty looked-up instruction
\* under the resolved key "neutral" is replaced by the fixed neutral sentence.
C22_Amended ==
  (cmd \in {"fix", "answer"} /\ Assembled) =>
    /\ selectedMoodKey = ResolvedMoodKey
    /\ moodInstructionText =
         (IF cmd = "answer" /\ LookedUpInstruction = Empty /\ ResolvedMoodKey = Neutral
          THEN NeutralAnswerInstruction ELSE LookedUpInstruction)
    /\ KeyNotFoundWarned <=>
         (~RequestedFound /\ SelectedMood # Empty /\ SelectedMood # AppConfig.DefaultMood)
    /\ DefaultNotFoundWarned <=> (~RequestedFound /\ ~DefaultFound)

\* C22 witness: fix was given --mood "" with a defined default mood: no
\* warning was printed and the default mood's instruction was substituted.
C22_Witness ==
  /\ cmd = "fix" /\ Assembled
  /\ argv.mood = Empty /\ ~RequestedFound /\ DefaultFound
  /\ ~MoodWarningPrinted
  /\ moodInstructionText = DefaultMoodInstruction /\ moodInstructionText # Empty

\* The diagnostics of the defaulting steps of initConfig.
DefaultingDiagnostics ==
  {"verbose: DefaultLanguage not set in config", "verbose: Editor not set in config",
   "verbose: GeminiModel not set in config", "verbose: DefaultMood not set in config",
   "verbose: Default prompt missing or outdated",
   "verbose: EnglishFixOnly prompt missing or outdated",
   "verbose: ExplainText prompt missing", "verbose: AnswerQuestion prompt missing",
   "verbose: Moods not set in config"}

\* The warnings of the fallback decisions taken in Run.
FallbackWarnings ==
  {"stdout: Warning: Mood key not found", "stdout: Warning: Default mood also not found",
   "stdout: Warning: Unknown prompt key"}

\* The configuration as decoded from the file, before the defaulting steps.
LoadedConfig == Unmarshal(viperConfig, environ)

\* C23 as stated: without --verbose the recoverable fallback decisions (an
\* unknown mood key, a missing default mood, an unknown --prompt key, an empty
\* scalar field, a stale or missing template, a missing moods map) produce no
\* output.
C23_Original ==
  ~argv.verbose => ~Happened(DefaultingDiagnostics \cup FallbackWarnings)

\* C23 amended: the defaulting steps of the resolver (empty scalar field,
\* stale or missing template, missing moods map) emit their diagnostics only
\* when --verbose is set, whereas the warnings for an unknown mood key, a
\* missing default mood and an unknown --prompt key are printed whether or
\* not --verbose is set.
C23_Amended ==
  /\ ~argv.verbose => ~Happened(DefaultingDiagnostics)
  /\ (argv.verbose /\ ConfigResolved) =>
       (Happened({"verbose: Moods not set in config"}) <=> DOMAIN LoadedConfig.Moods = {})
  /\ (cmd = "fix" /\ Assembled /\ UnknownPromptKey)
       => Happened({"stdout: Warning: Unknown prompt key"})
  /\ (cmd \in {"fix", "answer"} /\ Assembled) =>
       /\ KeyNotFoundWarned <=>
            (~RequestedFound /\ SelectedMood # Empty /\ SelectedMood # AppConfig.DefaultMood)
       /\ DefaultNotFoundWarned <=> (~RequestedFound /\ ~DefaultFound)

\* C23 witness: without --verbose, no configuration could be loaded, every
\* default was applied silently, and the warning for the unknown mood key was
\* printed all the same.
C23_Witness ==
  /\ ~argv.verbose /\ Assembled
  /\ LoadedConfig = ZeroConfig
  /\ AppConfig.Moods = getDefaultMoods
  /\ ~Happened(DefaultingDiagnostics)
  /\ KeyNotFoundWarned

\* The fatal messages of the 'prompt template missing' branches.
TemplateMissingFatal ==
  {"stderr: Error: No suitable prompt template",
   "stderr: Error: 'answer_question' prompt not defined",
   "stderr: Error: 'explain_text' prompt not defined"}

\* C24: with the configuration initConfig produced, the 'prompt template
\* missing' fatal branches of fix, explain and answer are never taken, for
\* every flag combination: the template chosen for the task is never empty.
C24_TemplateNeverMissing ==
  /\ ~Happened(TemplateMissingFatal)
  /\ AssembleRan =>
       /\ chosenPromptTemplate # Empty
       /\ Happened({"stdout: Opening editor"})

\* C24 witness: explain ran with a configuration file that defines no
\* explain_text template and used the compiled-in one.
C24_Witness ==
  /\ cmd = "explain" /\ AssembleRan
  /\ viperConfig.kind = "yaml"
  /\ LoadedConfig.Prompts.ExplainText = Empty
  /\ chosenPromptTemplate = defaultPromptsConfig.ExplainText

\* s begins with the token p.
StartsWith(s, p) == Len(s) >= Len(p) /\ SubSeq(s, 1, Len(p)) = p

\* The template with each placeholder position replaced by its value and the
\* inserted values left as they are.
RECURSIVE SubstituteVerbatim(_, _, _, _)
SubstituteVerbatim(t, mood, text, lang) ==
  IF t = Empty THEN Empty
  ELSE IF StartsWith(t, MOOD_INSTRUCTION)
  THEN mood \o SubstituteVerbatim(SubSeq(t, Len(MOOD_INSTRUCTION) + 1, Len(t)), mood, text, lang)
  ELSE IF StartsWith(t, TEXT)
  THEN text \o SubstituteVerbatim(SubSeq(t, Len(TEXT) + 1, Len(t)), mood, text, lang)
  ELSE IF StartsWith(t, LANGUAGE)
  THEN lang \o SubstituteVerbatim(SubSeq(t, Len(LANGUAGE) + 1, Len(t)), mood, text, lang)
  ELSE <<Head(t)>> \o SubstituteVerbatim(Tail(t), mood, text, lang)

\* C25: the final prompt is the chosen template with {MOOD_INSTRUCTION}
\* replaced by the command and {TEXT} and {LANGUAGE} by ProcessText, the raw
\* input text standing verbatim at every {TEXT} position: placeholder-like
\* substrings inside the input text or inside the mood instruction are not
\* themselves rewritten.  (explain makes no mood substitution.)
C25_VerbatimSubstitution ==
  Submitted =>
    sentPrompt = SubstituteVerbatim(chosenPromptTemplate,
                                    IF cmd = "explain" THEN MOOD_INSTRUCTION
                                    ELSE moodInstructionText,
                                    inputText, targetLanguage)

C27_LanguageNeverEmpty ==
  Submitted => targetLanguage # Empty

\* C28: the defaulting steps of initConfig leave every valid loaded field as
\* loaded: a non-empty defaultLanguage, editor, geminiModel or defaultMood, a
\* default / english_fix_only template containing {MOOD_INSTRUCTION}, a
\* non-empty explain_text or answer_question template and a non-empty moods
\* mapping, whichever other fields are repaired; the API key field is never
\* touched.
C28_DefaultingFrame ==
  ConfigResolved =>
    /\ LoadedConfig.DefaultLanguage # Empty
         => AppConfig.DefaultLanguage = LoadedConfig.DefaultLanguage
    /\ LoadedConfig.Editor # Empty => AppConfig.Editor = LoadedConfig.Editor
    /\ LoadedConfig.GeminiModel # Empty => AppConfig.GeminiModel = LoadedConfig.GeminiModel
    /\ LoadedConfig.DefaultMood # Empty => AppConfig.DefaultMood = LoadedConfig.DefaultMood
    /\ Contains(LoadedConfig.Prompts.Default, MOOD_INSTRUCTION)
         => AppConfig.Prompts.Default = LoadedConfig.Prompts.Default
    /\ Contains(LoadedConfig.Prompts.EnglishFixOnly, MOOD_INSTRUCTION)
         => AppConfig.Prompts.EnglishFixOnly = LoadedConfig.Prompts.EnglishFixOnly
    /\ LoadedConfig.Prompts.ExplainText # Empty
         => AppConfig.Prompts.ExplainText = LoadedConfig.Prompts.ExplainText
    /\ LoadedConfig.Prompts.AnswerQuestion # Empty
         => AppConfig.Prompts.AnswerQuestion = LoadedConfig.Prompts.AnswerQuestion
    /\ DOMAIN LoadedConfig.Moods # {} => AppConfig.Moods = LoadedConfig.Moods
    /\ AppConfig.GeminiAPIKey = LoadedConfig.GeminiAPIKey

\* C28 witness: a file whose defaultLanguage is missing and whose default
\* template is stale was repaired in those two fields while its editor,
\* default mood, english_fix_only template and moods were kept.
C28_Witness ==
  /\ pc = "prerun" /\ environ = NoEnviron
  /\ LoadedConfig.DefaultLanguage = Empty /\ AppConfig.DefaultLanguage = <<"Norwegian">>
  /\ LoadedConfig.Prompts.Default = StaleTemplate
  /\ AppConfig.Prompts.Default = defaultPromptsConfig.Default
  /\ AppConfig.Editor = <<"emacs">>
  /\ AppConfig.DefaultMood = <<"ghost">>
  /\ AppConfig.Prompts.EnglishFixOnly = MoodOnlyTemplate
  /\ AppConfig.Moods = LoadedMoods(YamlFile(EmptyKV, FormalMoods))

\* Mood keys a caller may request: defined, undefined and empty ones.
RequestableMoodKeys ==
  BuiltinMoodKeys \cup DOMAIN AppConfig.Moods \cup {Empty, <<"bogus">>, AppConfig.DefaultMood}

\* C29: the resolver does not apply the {MOOD_INSTRUCTION} validity rule to
\* answer_question: a non-empty loaded answer template without the token is
\* kept unchanged, and with such a template the final answer prompt is the
\* template itself, the same for every requested mood key.
C29_AnswerTemplateNoValidity ==
  /\ (ConfigResolved /\ LoadedConfig.Prompts.AnswerQuestion # Empty)
       => AppConfig.Prompts.AnswerQuestion = LoadedConfig.Prompts.AnswerQuestion
  /\ (cmd = "answer" /\ Assembled
      /\ ~Contains(AppConfig.Prompts.AnswerQuestion, MOOD_INSTRUCTION)) =>
       /\ finalPrompt = AppConfig.Prompts.AnswerQuestion
       /\ \A k \in RequestableMoodKeys :
            ReplaceAll(AppConfig.Prompts.AnswerQuestion, MOOD_INSTRUCTION,
                       AnswerMood(AppConfig, k).text) = finalPrompt

\* C29 witness: answer --mood professional ran with the user's answer
\* template, which has no {MOOD_INSTRUCTION}; the professional instruction
\* was resolved and the prompt is the template unchanged.
C29_Witness ==
  /\ cmd = "answer" /\ Assembled
  /\ LoadedConfig.Prompts.AnswerQuestion = UserAnswerTemplate
  /\ argv.mood = Professional /\ moodInstructionText # Empty
  /\ finalPrompt = UserAnswerTemplate

\* C30: GetGeminiAPIKey never returns an empty key together with a nil
\* error, so the 'apiKey == ""' fatal branch that follows the error check in
\* fix, explain and answer is never taken.
C30_NoEmptyKeyWithoutError ==
  /\ LET r == GetGeminiAPIKey(ConfigCredential, secrets, verbose)
     IN r.err \/ r.key # Empty
  /\ ~Happened({"stderr: Gemini API key not found"})
  /\ (KeyLookupDone /\ ~Happened(CredentialFailure)) => apiKey # Empty

\* C30 witness: the only credential is a `pass` entry whose output starts
\* with an empty line; the key returned is its first non-empty line.
C30_Witness ==
  /\ KeyLookupDone /\ pc = "assemble"
  /\ EnvCredential = Empty /\ ConfigCredential = Empty
  /\ Head(secrets.passOutput) = "\n"
  /\ apiKey = <<"pass-key", " ">>

====
